---- MODULE Spec2Model ----
(***************************************************************************)
(* Parts image downloader (backend/server.py): the job tracker             *)
(* (download_tasks), the download pipeline (download_images,               *)
(* download_images_background, AsyncImageDownloader) and local storage     *)
(* (DOWNLOADS_DIR).                                                        *)
(*                                                                         *)
(* The server runs on one asyncio event loop: the code between two await   *)
(* points is one atomic step, and every action below is one such step.     *)
(* Strings the code inspects character by character (part numbers, file    *)
(* names) are sequences of one-character strings.                          *)
(***************************************************************************)
EXTENDS Integers, Sequences, FiniteSets, TLC

(***************************************************************************)
(* Bounds of the model.                                                    *)
(***************************************************************************)
MaxRequests == 3      \* search, download and cleanup requests served
MaxFetches == 2       \* work items over all download jobs
MaxBatchItems == 12   \* work items of the one large download job of SpecBatch

(***************************************************************************)
(* Program constants.                                                      *)
(***************************************************************************)
batch_size == 10
max_concurrent == 3
MinContentLen == 1000
max_images_per_part == 5
min_images_per_part == 3

VARIABLES
    download_tasks,   \* the tracker: id -> dict (a function from keys to values)
    files,            \* DOWNLOADS_DIR: image file name -> content
    zips,             \* DOWNLOADS_DIR: archive name -> list of archive entries
    bg,               \* download id -> the background task of that download job
    calls,            \* how many requests, work items and provider queries were made
    env,              \* the outside world: requests, provider and remote hosts
    observed          \* the last answer a watched client got (see Observe)

vars == <<download_tasks, files, zips, bg, calls, env, observed>>

(***************************************************************************)
(* Python values.                                                          *)
(***************************************************************************)
\* Optional[str] / Optional[int]: None is the empty sequence, v is <<v>>.
None == <<>>
Some(v) == <<v>>

\* dict.update(u): the keys of u are set, the other keys are kept.
DictUpdate(d, u) == u @@ d

Range(s) == {s[i] : i \in DOMAIN s}

RECURSIVE SeqSum(_)
SeqSum(s) == IF s = <<>> THEN 0 ELSE Head(s) + SeqSum(Tail(s))

RECURSIVE Flatten(_)
Flatten(ss) == IF ss = <<>> THEN <<>> ELSE Head(ss) \o Flatten(Tail(ss))

\* del d[k]
DictDel(d, k) == [x \in (DOMAIN d) \ {k} |-> d[x]]

\* d.get(key, default)
DictGet(d, key, default) == IF key \in DOMAIN d THEN d[key] ELSE default

Min(a, b) == IF a <= b THEN a ELSE b

(***************************************************************************)
(* Characters and file names.                                              *)
(***************************************************************************)
Letters == {"A", "B", "C", "P", "X", "a", "b", "c", "p", "x"}
DigitChars == <<"0", "1", "2", "3", "4", "5", "6", "7", "8", "9">>
AlNum == Letters \cup Range(DigitChars)

\* str(n) for n >= 0
RECURSIVE Str(_)
Str(n) == IF n < 10 THEN <<DigitChars[n + 1]>>
          ELSE Str(n \div 10) \o <<DigitChars[(n % 10) + 1]>>

\* "".join(c if c.isalnum() or c in "._-" else "_" for c in part_number)
CleanPart(part_number) ==
    [i \in DOMAIN part_number |->
        IF part_number[i] \in AlNum \/ part_number[i] \in {".", "_", "-"}
        THEN part_number[i] ELSE "_"]

\* str.lower() on the suffixes the model's URLs carry
Lower(s) == CASE s = ".PNG" -> ".png"
              [] s = ".JPG" -> ".jpg"
              [] OTHER -> s

ImageExtensions == {".jpg", ".jpeg", ".png", ".webp", ".gif"}

\* A URL is [name, suffix]: suffix is Path(urlparse(url).path).suffix.
\* The empty URL "" is [name |-> "", suffix |-> ""].
EmptyUrl == [name |-> "", suffix |-> ""]

Extension(url) ==
    LET extension == Lower(url.suffix)
    IN  IF extension \notin ImageExtensions THEN ".jpg" ELSE extension

\* f"{clean_part}_{image_index + 1}{extension}"; the extension is the last element
generate_filename(part_number, image_index, url) ==
    CleanPart(part_number) \o <<"_">> \o Str(image_index + 1) \o <<Extension(url)>>

\* f"parts_images_{download_id}.zip"
ZipName(download_id) == <<"parts_images_", download_id, ".zip">>

(***************************************************************************)
(* Records of the program.                                                 *)
(***************************************************************************)
\* ImageResult (the fields the download pipeline reads)
ImageResult(url) == [original_url |-> url]

\* PartSearchResult
PartSearchResult(part_number, search_query, images, search_success, error_message) ==
    [part_number |-> part_number, search_query |-> search_query, images |-> images,
     search_success |-> search_success, error_message |-> error_message]

\* DownloadResult
DownloadResult(part_number, image_url, filename, success, error_message, file_size) ==
    [part_number |-> part_number, image_url |-> image_url, filename |-> filename,
     success |-> success, error_message |-> error_message, file_size |-> file_size]

\* one work item of images_to_download: (part_number, url, filename)
WorkItem(part_number, url, filename) ==
    [part_number |-> part_number, url |-> url, filename |-> filename]

(***************************************************************************)
(* The tracker's two kinds of entry, told apart as the code tells them     *)
(* apart: by the keys the dict holds.                                      *)
(***************************************************************************)
IsSearchJob(id) == id \in DOMAIN download_tasks
                   /\ "search_results" \in DOMAIN download_tasks[id]
IsDownloadJob(id) == id \in DOMAIN download_tasks
                     /\ "total_images" \in DOMAIN download_tasks[id]
DownloadJobs == {id \in DOMAIN download_tasks : IsDownloadJob(id)}

\* str(uuid.uuid4()): an id no earlier call returned
NewId == calls.search + calls.download + 1
IssuedIds == 1 .. (calls.search + calls.download)

\* the requests served so far that changed the tracker
Served == calls.search + calls.download + calls.cleanup

\* What a client sees is no state of the server.  (The answer to a search is
\* kept with the part numbers asked and the provider's answers to the queries,
\* the answer to a download submit with the part numbers asked.)  Where the outside world
\* holds a watched client (env.observe), the answer to its last request is
\* kept: [op, id, code, body], id being the id the request named (-1 if it
\* named none) and body the empty sequence or the one value sent; elsewhere
\* nothing is kept.
Nothing == [op |-> "", id |-> -1, code |-> 0, body |-> <<>>]
Observe(answer) == IF env.observe THEN answer ELSE Nothing

(***************************************************************************)
(* Strings of the search service.  A str is a sequence of one-character    *)
(* strings; None and "" are both the empty sequence (both are falsy, and   *)
(* the code only tests them for truth).                                    *)
(***************************************************************************)
UpperCase == <<"A", "B", "C", "D", "E", "F", "G", "H", "I", "J", "K", "L", "M",
               "N", "O", "P", "Q", "R", "S", "T", "U", "V", "W", "X", "Y", "Z">>
LowerCase == <<"a", "b", "c", "d", "e", "f", "g", "h", "i", "j", "k", "l", "m",
               "n", "o", "p", "q", "r", "s", "t", "u", "v", "w", "x", "y", "z">>

\* str.lower()
StrLower(s) ==
    [i \in DOMAIN s |->
        IF \E j \in DOMAIN UpperCase : UpperCase[j] = s[i]
        THEN LowerCase[CHOOSE j \in DOMAIN UpperCase : UpperCase[j] = s[i]]
        ELSE s[i]]

\* s.replace(c, "") for a one-character c
StrRemove(s, c) == SelectSeq(s, LAMBDA x : x # c)

\* a in b
IsSub(a, b) ==
    \E i \in 0 .. (Len(b) - Len(a)) : SubSeq(b, i + 1, i + Len(a)) = a

\* str.split(): the words between runs of blanks
RECURSIVE StrSplit(_)
StrSplit(s) ==
    IF s = <<>> THEN <<>>
    ELSE IF Head(s) = " " THEN StrSplit(Tail(s))
    ELSE LET blanks == {i \in DOMAIN s : s[i] = " "}
             n == IF blanks = {} THEN Len(s)
                  ELSE (CHOOSE i \in blanks : \A j \in blanks : i <= j) - 1
         IN  <<SubSeq(s, 1, n)>> \o StrSplit(SubSeq(s, n + 1, Len(s)))

\* " ".join(words)
RECURSIVE StrJoin(_)
StrJoin(words) ==
    IF words = <<>> THEN <<>>
    ELSE IF Len(words) = 1 THEN words[1]
    ELSE words[1] \o <<" ">> \o StrJoin(Tail(words))

(***************************************************************************)
(* _score_image_relevance.  A raw hit (image_data) is a dict: a function   *)
(* from the keys it carries to their values.                               *)
(***************************************************************************)
part_keywords ==
    <<<<"t", "r", "a", "n", "s", "f", "o", "r", "m", "e", "r">>,
      <<"r", "e", "l", "a", "y">>,
      <<"c", "o", "n", "t", "a", "c", "t", "o", "r">>,
      <<"b", "r", "e", "a", "k", "e", "r">>,
      <<"c", "o", "m", "p", "o", "n", "e", "n", "t">>,
      <<"e", "l", "e", "c", "t", "r", "i", "c", "a", "l">>,
      <<"i", "n", "d", "u", "s", "t", "r", "i", "a", "l">>,
      <<"g", "e", "n", "u", "i", "n", "e">>,
      <<"o", "e", "m">>,
      <<"o", "r", "i", "g", "i", "n", "a", "l">>,
      <<"s", "c", "h", "n", "e", "i", "d", "e", "r">>,
      <<"a", "b", "b">>,
      <<"s", "i", "e", "m", "e", "n", "s">>,
      <<"e", "o", "c", "r">>,
      <<"c", "u", "r", "r", "e", "n", "t">>>>

industrial_sources ==
    <<<<"a", "l", "l", "i", "a", "n", "c", "e">>,
      <<"a", "u", "t", "o", "m", "a", "t", "i", "o", "n">>,
      <<"i", "n", "d", "u", "s", "t", "r", "i", "a", "l">>,
      <<"e", "l", "e", "c", "t", "r", "i", "c">>,
      <<"s", "c", "h", "n", "e", "i", "d", "e", "r">>,
      <<"a", "b", "b", ".", "c", "o", "m">>,
      <<"s", "i", "e", "m", "e", "n", "s">>,
      <<"r", "o", "c", "k", "w", "e", "l", "l">>,
      <<"e", "a", "t", "o", "n">>,
      <<"g", "e", ".", "c", "o", "m">>,
      <<"w", "e", "s", "t", "i", "n", "g", "h", "o", "u", "s", "e">>,
      <<"t", "e", "c", "h", "n", "i", "c", "a", "l">>,
      <<"c", "a", "t", "a", "l", "o", "g">>,
      <<"d", "a", "t", "a", "s", "h", "e", "e", "t">>,
      <<"s", "p", "e", "c">>>>

trusted_sources ==
    <<<<"e", "b", "a", "y">>,
      <<"a", "m", "a", "z", "o", "n">>,
      <<"d", "i", "g", "i", "k", "e", "y">>,
      <<"m", "o", "u", "s", "e", "r">>,
      <<"n", "e", "w", "a", "r", "k">>,
      <<"r", "s", "-", "o", "n", "l", "i", "n", "e">>,
      <<"f", "a", "r", "n", "e", "l", "l">>,
      <<"a", "l", "l", "i", "e", "d">>,
      <<"g", "r", "a", "i", "n", "g", "e", "r">>>>

avoid_keywords ==
    <<<<"l", "o", "g", "o">>,
      <<"b", "a", "n", "n", "e", "r">>,
      <<"a", "d", "v", "e", "r", "t", "i", "s", "e", "m", "e", "n", "t">>,
      <<"a", "d">>,
      <<"p", "r", "o", "m", "o">>,
      <<"s", "a", "l", "e">>,
      <<"c", "o", "u", "p", "o", "n">>,
      <<"c", "a", "t", "a", "l", "o", "g">>,
      <<"m", "a", "n", "u", "a", "l">>,
      <<"d", "i", "a", "g", "r", "a", "m">>,
      <<"s", "c", "h", "e", "m", "a", "t", "i", "c">>>>

\* how many of `words` occur in s
CountIn(words, s) == Cardinality({i \in DOMAIN words : IsSub(words[i], s)})

\* the first of the indices at which a loop's test passes (where it breaks),
\* 0 if it passes at none
FirstIndex(passing) ==
    IF passing = {} THEN 0
    ELSE CHOOSE i \in passing : \A j \in passing : i <= j

PartMatchScore_AddsBoth(title, part_number) ==
    (IF IsSub(StrRemove(StrRemove(StrLower(part_number), "-"), " "),
              StrRemove(StrRemove(title, "-"), " ")) THEN 50 ELSE 0)
    + (IF IsSub(StrLower(part_number), title) THEN 30 ELSE 0)

PartMatchScore_RawOnly(title, part_number) ==
    IF IsSub(StrLower(part_number), title) THEN 30 ELSE 0

\* lines 114-118: the part number in the title
PartMatchScore(title, part_number) ==
    LET part_clean == StrRemove(StrRemove(StrLower(part_number), "-"), " ")
    IN  IF IsSub(part_clean, StrRemove(StrRemove(title, "-"), " ")) THEN 50
        ELSE IF IsSub(StrLower(part_number), title) THEN 30
        ELSE 0

\* lines 121-122
ManufacturerScore(title, manufacturer) ==
    IF manufacturer # <<>> /\ IsSub(StrLower(manufacturer), title) THEN 20 ELSE 0

\* lines 136-139: "for source in industrial_sources: if source in source".  The
\* loop variable has the name of the label: the test reads the list entry on
\* both sides, and after the loop `source` is the entry the loop stopped at.
IndustrialLoop(source) ==
    LET hit == FirstIndex({i \in DOMAIN industrial_sources :
                              IsSub(industrial_sources[i], industrial_sources[i])})
    IN  [bonus |-> IF hit # 0 THEN 20 ELSE 0,
         source |-> IF hit # 0 THEN industrial_sources[hit]
                    ELSE industrial_sources[Len(industrial_sources)]]

\* lines 144-147: the first trusted source found in `source`
TrustedBonus(source) ==
    IF FirstIndex({i \in DOMAIN trusted_sources : IsSub(trusted_sources[i], source)}) # 0
    THEN 10 ELSE 0

\* lines 132-147: what the two source loops add to the score of a hit whose
\* lower-cased source label is `source`
SourceTrustBonus(source) ==
    LET loop == IndustrialLoop(source)
    IN  loop.bonus + TrustedBonus(loop.source)

\* lines 157-165; a missing width or height is 0
DimensionScore(width, height) ==
    IF width # 0 /\ height # 0
    THEN IF 200 <= width /\ width <= 1000 /\ 200 <= height /\ height <= 1000 THEN 10
         ELSE IF width < 100 \/ height < 100 THEN 0 - 15
         ELSE IF width > 2000 \/ height > 2000 THEN 0 - 5
         ELSE 0
    ELSE 0

\* the score before max(0, score)
RawScore(image_data, part_number, manufacturer) ==
    LET title == StrLower(DictGet(image_data, "title", <<>>))
        source == StrLower(DictGet(image_data, "source", <<>>))
    IN  PartMatchScore(title, part_number)
        + ManufacturerScore(title, manufacturer)
        + 8 * CountIn(part_keywords, title)
        + SourceTrustBonus(source)
        - 10 * CountIn(avoid_keywords, title)
        + DimensionScore(DictGet(image_data, "original_width", 0),
                         DictGet(image_data, "original_height", 0))

score_image_relevance_NoFloor(image_data, part_number, manufacturer) ==
    RawScore(image_data, part_number, manufacturer)

score_image_relevance(image_data, part_number, manufacturer) ==
    LET score == RawScore(image_data, part_number, manufacturer)
    IN  IF score > 0 THEN score ELSE 0

(***************************************************************************)
(* _select_best_images.                                                    *)
(***************************************************************************)
\* lines 172-175: scored_images, a list of (score, img)
ScoredImages(images, part_number, manufacturer) ==
    [i \in DOMAIN images |->
        <<score_image_relevance(images[i], part_number, manufacturer), images[i]>>]

RECURSIVE SortByScore_TiesReversed(_)
SortByScore_TiesReversed(scored_images) ==
    IF scored_images = <<>> THEN <<>>
    ELSE LET front == SortByScore_TiesReversed(SubSeq(scored_images, 1,
                                                      Len(scored_images) - 1))
             x == scored_images[Len(scored_images)]
             n == Cardinality({i \in DOMAIN front : front[i][1] > x[1]})
         IN  SubSeq(front, 1, n) \o <<x>> \o SubSeq(front, n + 1, Len(front))

\* line 178: sort(key=score, reverse=True); the sort is stable
RECURSIVE SortByScore(_)
SortByScore(scored_images) ==
    IF scored_images = <<>> THEN <<>>
    ELSE LET front == SortByScore(SubSeq(scored_images, 1, Len(scored_images) - 1))
             x == scored_images[Len(scored_images)]
             n == Cardinality({i \in DOMAIN front : front[i][1] >= x[1]})
         IN  SubSeq(front, 1, n) \o <<x>> \o SubSeq(front, n + 1, Len(front))

SourceOf(img) == StrLower(DictGet(img, "source", <<>>))

RECURSIVE SelectLoop_ThreePerSource(_, _, _)
SelectLoop_ThreePerSource(scored_images, selected, max_images) ==
    IF scored_images = <<>> \/ Len(selected) >= max_images THEN selected
    ELSE LET score == Head(scored_images)[1]
             img == Head(scored_images)[2]
             source_count == Cardinality({i \in DOMAIN selected :
                                             SourceOf(selected[i]) = SourceOf(img)})
         IN  SelectLoop_ThreePerSource(Tail(scored_images),
                        IF score > 10 /\ source_count < 3
                        THEN Append(selected, img) ELSE selected,
                        max_images)

\* lines 184-194: the loop over the sorted hits
RECURSIVE SelectLoop(_, _, _)
SelectLoop(scored_images, selected, max_images) ==
    IF scored_images = <<>> \/ Len(selected) >= max_images THEN selected
    ELSE LET score == Head(scored_images)[1]
             img == Head(scored_images)[2]
             source_count == Cardinality({i \in DOMAIN selected :
                                             SourceOf(selected[i]) = SourceOf(img)})
         IN  SelectLoop(Tail(scored_images),
                        IF score > 10 /\ source_count < 2
                        THEN Append(selected, img) ELSE selected,
                        max_images)

select_best_images(images, part_number, manufacturer, max_images) ==
    SelectLoop(SortByScore(ScoredImages(images, part_number, manufacturer)),
               <<>>, max_images)

(***************************************************************************)
(* _filter_previous_images and the conversion of a hit to an ImageResult.  *)
(***************************************************************************)
filter_previous_images_OriginalOnly(images, exclude_urls) ==
    IF exclude_urls = <<>> THEN images
    ELSE SelectSeq(images,
                   LAMBDA img : DictGet(img, "original", EmptyUrl) \notin Range(exclude_urls))

filter_previous_images(images, exclude_urls) ==
    IF exclude_urls = <<>> THEN images
    ELSE LET exclude_set == Range(exclude_urls)
         IN  SelectSeq(images,
                       LAMBDA img :
                          /\ DictGet(img, "original", EmptyUrl) \notin exclude_set
                          /\ DictGet(img, "link", EmptyUrl) \notin exclude_set)

\* img.get("original", img.get("link", ""))
OriginalUrl(img) == DictGet(img, "original", DictGet(img, "link", EmptyUrl))

(***************************************************************************)
(* The queries sent to the provider.                                       *)
(***************************************************************************)
Quote(s) == <<"\"">> \o s \o <<"\"">>

ContainsAny(words, s) == \E i \in DOMAIN words : IsSub(words[i], s)

industrial_part_words ==
    <<<<"c", "t", "-">>,
      <<"t", "r", "a", "n", "s", "f", "o", "r", "m", "e", "r">>,
      <<"r", "e", "l", "a", "y">>,
      <<"c", "o", "n", "t", "a", "c", "t", "o", "r">>,
      <<"b", "r", "e", "a", "k", "e", "r">>>>
automotive_part_words ==
    <<<<"p", "f">>,
      <<"f", "i", "l", "t", "e", "r">>,
      <<"b", "p", "r">>,
      <<"n", "g", "k">>,
      <<"s", "p", "a", "r", "k">>>>

\* lines 325-344: search_query of the first search
SearchQuery(part_number, manufacturer) ==
    LET part_lower == StrLower(part_number)
    IN  IF ContainsAny(industrial_part_words, part_lower)
        THEN IF manufacturer # <<>>
             THEN StrJoin(<<Quote(part_number), manufacturer,
                            <<"e", "l", "e", "c", "t", "r", "i", "c", "a", "l", " ", "c", "o", "m", "p", "o", "n", "e", "n", "t", " ", "i", "n", "d", "u", "s", "t", "r", "i", "a", "l">>>>)
             ELSE StrJoin(<<Quote(part_number),
                            <<"e", "l", "e", "c", "t", "r", "i", "c", "a", "l", " ", "c", "o", "m", "p", "o", "n", "e", "n", "t", " ", "t", "r", "a", "n", "s", "f", "o", "r", "m", "e", "r", " ", "r", "e", "l", "a", "y">>>>)
        ELSE IF ContainsAny(automotive_part_words, part_lower)
        THEN IF manufacturer # <<>>
             THEN StrJoin(<<Quote(part_number), Quote(manufacturer),
                            <<"g", "e", "n", "u", "i", "n", "e", " ", "p", "a", "r", "t">>>>)
             ELSE StrJoin(<<Quote(part_number), <<"g", "e", "n", "u", "i", "n", "e", " ", "O", "E", "M", " ", "p", "a", "r", "t">>>>)
        ELSE IF manufacturer # <<>>
             THEN StrJoin(<<Quote(part_number), manufacturer, <<"p", "a", "r", "t", " ", "c", "o", "m", "p", "o", "n", "e", "n", "t">>>>)
             ELSE StrJoin(<<Quote(part_number), <<"i", "n", "d", "u", "s", "t", "r", "i", "a", "l", " ", "p", "a", "r", "t", " ", "c", "o", "m", "p", "o", "n", "e", "n", "t">>>>)

\* _get_alternative_search_params(...)["q"]
AlternativeQuery(part_number, manufacturer, strategy) ==
    LET last == IF manufacturer # <<>> THEN <<manufacturer>> ELSE <<>>
    IN  IF strategy = "broader"
        THEN StrJoin(<<part_number, <<"a", "u", "t", "o", "m", "o", "t", "i", "v", "e", " ", "p", "a", "r", "t">>, <<"r", "e", "p", "l", "a", "c", "e", "m", "e", "n", "t">>>> \o last)
        ELSE IF strategy = "specific"
        THEN StrJoin(<<Quote(part_number)>>
                     \o (IF manufacturer # <<>> THEN <<Quote(manufacturer)>> ELSE <<>>)
                     \o <<<<"g", "e", "n", "u", "i", "n", "e">>, <<"o", "r", "i", "g", "i", "n", "a", "l">>>>)
        ELSE StrJoin(<<part_number, <<"a", "f", "t", "e", "r", "m", "a", "r", "k", "e", "t">>, <<"c", "o", "m", "p", "a", "t", "i", "b", "l", "e">>, <<"f", "i", "t", "s">>>> \o last)

(***************************************************************************)
(* The search service.  What the provider answers to a query is an input:  *)
(* a dict with an "error", a dict with "images_results" (the raw hits), or *)
(* an exception raised by the call.                                        *)
(***************************************************************************)
\* lines 389-398 and 293-302: the ImageResults of the selected hits
Converted(best_images) ==
    [i \in DOMAIN best_images |-> ImageResult(OriginalUrl(best_images[i]))]

search_part_images_service_HidesError(part_number, manufacturer, num_results, results) ==
    PartSearchResult(part_number, SearchQuery(part_number, manufacturer),
                     Converted(select_best_images(DictGet(results, "images_results", <<>>),
                                                  part_number, manufacturer, num_results)),
                     TRUE, None)

\* GoogleImageSearchService.search_part_images
search_part_images_service(part_number, manufacturer, num_results, results) ==
    LET search_query == SearchQuery(part_number, manufacturer)
    IN  IF "exception" \in DOMAIN results
        THEN PartSearchResult(part_number, <<>>, <<>>, FALSE, Some(results.exception))
        ELSE IF "error" \in DOMAIN results
        THEN PartSearchResult(part_number, search_query, <<>>, FALSE, Some(results.error))
        ELSE LET raw_images == DictGet(results, "images_results", <<>>)
                 best_images == select_best_images(raw_images, part_number,
                                                   manufacturer, num_results)
             IN  PartSearchResult(part_number, search_query, Converted(best_images),
                                  TRUE, None)

\* GoogleImageSearchService.reprocess_part_images
reprocess_part_images_service(part_number, manufacturer, num_results, strategy, exclude_urls, results) ==
    LET search_query == AlternativeQuery(part_number, manufacturer, strategy)
    IN  IF "exception" \in DOMAIN results
        THEN PartSearchResult(part_number, <<>>, <<>>, FALSE, Some(results.exception))
        ELSE IF "error" \in DOMAIN results
        THEN PartSearchResult(part_number, search_query, <<>>, FALSE, Some(results.error))
        ELSE LET raw_images == DictGet(results, "images_results", <<>>)
                 filtered_images == filter_previous_images(raw_images, exclude_urls)
                 best_images == select_best_images(filtered_images, part_number,
                                                   manufacturer, num_results)
             IN  PartSearchResult(part_number, search_query, Converted(best_images),
                                  TRUE, None)

(***************************************************************************)
(* Search: POST /search-images.                                            *)
(***************************************************************************)
\* PartSearchRequest: what the validation of the request body lets through
ValidSearchRequest(part_numbers, num_images_per_part) ==
    /\ min_images_per_part <= num_images_per_part
    /\ num_images_per_part <= max_images_per_part

\* lines 672-681: total_images, counted over the results that succeeded
TotalImages(results) ==
    SeqSum([i \in DOMAIN results |->
               IF results[i].search_success THEN Len(results[i].images) ELSE 0])

search_part_images ==
    /\ Served < env.maxRequests
    /\ calls.search < env.maxSearches
    /\ \E part_numbers \in env.requests, manufacturer \in env.manufacturers,
          num_images_per_part \in env.counts :
       IF ~ValidSearchRequest(part_numbers, num_images_per_part)
       THEN \* 422: the handler is not called
            /\ observed' = Observe([op |-> "search_part_images", id |-> -1,
                                    code |-> 422, body |-> <<>>])
            /\ UNCHANGED <<download_tasks, calls>>
       ELSE \E replies \in {r \in env.provider : Len(r) = Len(part_numbers)} :
          LET results == [i \in DOMAIN part_numbers |->
                             search_part_images_service(part_numbers[i], manufacturer,
                                                        num_images_per_part, replies[i])]
          IN  /\ download_tasks' = (NewId :> [search_results |-> results,
                                              status |-> "completed"]) @@ download_tasks
              /\ observed' = Observe([op |-> "search_part_images", id |-> -1,
                                      code |-> 200,
                                      body |-> <<[asked |-> part_numbers,
                                                  answers |-> replies,
                                                  search_id |-> NewId,
                                                  results |-> results,
                                                  total_parts |-> Len(part_numbers),
                                                  total_images_found |-> TotalImages(results)]>>])
              /\ calls' = [calls EXCEPT !.search = @ + 1,
                                        !.queries = @ + Len(part_numbers)]
    /\ UNCHANGED <<files, zips, bg, env>>

(***************************************************************************)
(* Re-process: POST /reprocess-images.                                     *)
(***************************************************************************)
\* lines 607-613: the URLs of the original job's images of the requested parts
ExcludeUrls(original_search, part_numbers) ==
    Flatten([i \in DOMAIN original_search |->
                IF original_search[i].part_number \in Range(part_numbers)
                THEN LET urls == [k \in DOMAIN original_search[i].images |->
                                     original_search[i].images[k].original_url]
                     IN  SelectSeq(urls, LAMBDA u : u # EmptyUrl)
                ELSE <<>>])

\* lines 620-627: the second word of the original query, which the handler takes
\* for the manufacturer
RECURSIVE ManufacturerOf(_, _, _)
ManufacturerOf(original_search, part_number, manufacturer) ==
    IF original_search = <<>> THEN manufacturer
    ELSE LET orig_result == Head(original_search)
             query_parts == StrSplit(orig_result.search_query)
             found == IF orig_result.part_number = part_number
                         /\ orig_result.search_query # <<>>
                         /\ Len(query_parts) > 1
                      THEN IF query_parts[2] \notin {<<"O", "E", "M">>, <<"p", "a", "r", "t">>, <<"c", "o", "m", "p", "o", "n", "e", "n", "t">>}
                           THEN query_parts[2] ELSE None
                      ELSE manufacturer
         IN  ManufacturerOf(Tail(original_search), part_number, found)

\* the status code of the answer
reprocess_status(search_id) ==
    IF search_id \notin DOMAIN download_tasks THEN 404
    ELSE IF "search_results" \notin DOMAIN download_tasks[search_id] THEN 500
    ELSE 200

ReprocessJobs == {id \in DOMAIN download_tasks :
                     "reprocessed_from" \in DOMAIN download_tasks[id]}

reprocess_part_images ==
    /\ Served < env.maxRequests
    /\ \E search_id \in {0} \cup IssuedIds, request \in env.reprocess :
          IF reprocess_status(search_id) # 200
          THEN \* 404 (line 602), or KeyError at line 605: nothing else happens
               /\ observed' = Observe([op |-> "reprocess_part_images", id |-> search_id,
                                       code |-> reprocess_status(search_id),
                                       body |-> <<>>])
               /\ UNCHANGED <<download_tasks, files, zips, bg, calls, env>>
          ELSE /\ calls.search < env.maxSearches
               /\ Cardinality(ReprocessJobs) < env.maxReprocess
               /\ \E replies \in {r \in env.provider :
                                    Len(r) = Len(request.part_numbers)} :
                     LET original_search == download_tasks[search_id].search_results
                         exclude_urls == ExcludeUrls(original_search,
                                                     request.part_numbers)
                         strategy == IF request.search_strategy # None
                                     THEN request.search_strategy[1]
                                     ELSE "alternative"
                         results ==
                            [i \in DOMAIN request.part_numbers |->
                                reprocess_part_images_service(
                                   request.part_numbers[i],
                                   ManufacturerOf(original_search,
                                                  request.part_numbers[i], None),
                                   4, strategy, exclude_urls, replies[i])]
                     IN  /\ download_tasks' =
                                (NewId :> [search_results |-> results,
                                           status |-> "completed",
                                           reprocessed_from |-> search_id,
                                           strategy |-> request.search_strategy])
                                @@ download_tasks
                         /\ observed' = Observe([op |-> "reprocess_part_images",
                                                 id |-> search_id, code |-> 200,
                                                 body |-> <<[search_id |-> NewId,
                                                             results |-> results]>>])
               /\ calls' = [calls EXCEPT !.search = @ + 1,
                                         !.queries = @ + Len(request.part_numbers)]
               /\ UNCHANGED <<files, zips, bg, env>>

(***************************************************************************)
(* Download submit: POST /download-images.                                 *)
(***************************************************************************)
\* the work items of one PartSearchResult (lines 719-723)
ItemsOfResult(result) ==
    IF ~result.search_success THEN <<>>
    ELSE LET idx == SelectSeq([i \in DOMAIN result.images |-> i],
                              LAMBDA i : result.images[i].original_url # EmptyUrl)
         IN  [k \in DOMAIN idx |->
                 WorkItem(result.part_number,
                          result.images[idx[k]].original_url,
                          generate_filename(result.part_number, idx[k] - 1,
                                            result.images[idx[k]].original_url))]

ImagesToDownload_IgnoresSubset(search_results, part_numbers) ==
    Flatten([i \in DOMAIN search_results |-> ItemsOfResult(search_results[i])])

\* images_to_download (lines 712-723); part_numbers = <<>> is "no subset given"
ImagesToDownload(search_results, part_numbers) ==
    LET kept == IF part_numbers # <<>>
                THEN SelectSeq(search_results,
                               LAMBDA r : r.part_number \in Range(part_numbers))
                ELSE search_results
    IN  Flatten([i \in DOMAIN kept |-> ItemsOfResult(kept[i])])

\* the background task as download submit queues it
NewBackgroundTask(images_to_download) ==
    [pc |-> "pending", items |-> images_to_download, i |-> 0, sem |-> 0,
     tasks |-> <<>>, results |-> <<>>, chunks |-> <<>>]

\* the status code of the answer
download_images_status(search_id) ==
    IF search_id \notin DOMAIN download_tasks THEN 404
    ELSE IF "search_results" \notin DOMAIN download_tasks[search_id] THEN 500
    ELSE 200

\* (mutant) the submit marks the search job it reads: search_data["status"] = "downloading"
download_images_MarksSource ==
    /\ Served < env.maxRequests
    /\ \E search_id \in {0} \cup IssuedIds, part_numbers \in env.filters :
       IF download_images_status(search_id) # 200
       THEN /\ observed' = Observe([op |-> "download_images", id |-> search_id,
                                    code |-> download_images_status(search_id),
                                    body |-> <<>>])
            /\ UNCHANGED <<download_tasks, files, zips, bg, calls, env>>
       ELSE LET images_to_download ==
                    ImagesToDownload(download_tasks[search_id].search_results,
                                     part_numbers)
                download_id == NewId
            IN  /\ calls.fetches + Len(images_to_download) <= env.maxFetches
                /\ download_tasks' =
                       (download_id :> [status |-> "started",
                                        total_images |-> Len(images_to_download),
                                        downloaded_images |-> 0,
                                        results |-> <<>>])
                       @@ [download_tasks EXCEPT ![search_id].status = "downloading"]
                /\ bg' = (download_id :> NewBackgroundTask(images_to_download)) @@ bg
                /\ calls' = [calls EXCEPT !.download = @ + 1,
                                          !.fetches = @ + Len(images_to_download)]
                /\ observed' =
                       Observe([op |-> "download_images", id |-> search_id,
                                code |-> 200,
                                body |-> <<[asked |-> part_numbers,
                                            download_id |-> download_id,
                                            status |-> "started",
                                            total_images |-> Len(images_to_download),
                                            downloaded_images |-> 0]>>])
                /\ UNCHANGED <<files, zips, env>>

download_images ==
    /\ Served < env.maxRequests
    /\ \E search_id \in {0} \cup IssuedIds, part_numbers \in env.filters :
       IF download_images_status(search_id) # 200
       THEN \* 404 (unknown id) or 500 (KeyError: no "search_results"): nothing changes
            /\ observed' = Observe([op |-> "download_images", id |-> search_id,
                                    code |-> download_images_status(search_id),
                                    body |-> <<>>])
            /\ UNCHANGED <<download_tasks, files, zips, bg, calls, env>>
       ELSE LET images_to_download ==
                    ImagesToDownload(download_tasks[search_id].search_results,
                                     part_numbers)
                download_id == NewId
            IN  /\ calls.fetches + Len(images_to_download) <= env.maxFetches
                /\ download_tasks' =
                       (download_id :> [status |-> "started",
                                        total_images |-> Len(images_to_download),
                                        downloaded_images |-> 0,
                                        results |-> <<>>]) @@ download_tasks
                /\ bg' = (download_id :> NewBackgroundTask(images_to_download)) @@ bg
                /\ calls' = [calls EXCEPT !.download = @ + 1,
                                          !.fetches = @ + Len(images_to_download)]
                /\ observed' =
                       Observe([op |-> "download_images", id |-> search_id,
                                code |-> 200,
                                body |-> <<[asked |-> part_numbers,
                                            download_id |-> download_id,
                                            status |-> "started",
                                            total_images |-> Len(images_to_download),
                                            downloaded_images |-> 0]>>])
                /\ UNCHANGED <<files, zips, env>>

(***************************************************************************)
(* AsyncImageDownloader.download_image, one step per await.  A fetch task  *)
(* of a chunk is [pc, fd, body, result]:                                   *)
(*   wait    blocked in "async with semaphore"                             *)
(*   get     awaiting session.get / response.read                          *)
(*   open    awaiting aiofiles.open(filepath, 'wb')                        *)
(*   write   awaiting f.write(content)                                     *)
(*   verify  awaiting the close of f; then the checks run and it returns   *)
(*   done    returned; result is its DownloadResult                        *)
(* A file is [ino, len, valid, writer]: ino names the file object (a path  *)
(* that is unlinked and created again is a new one), writer the fetch      *)
(* whose bytes it holds, valid whether PIL can open those bytes.           *)
(***************************************************************************)
NoBody == [len |-> 0, valid |-> FALSE]
NewTask == [pc |-> "wait", fd |-> None, body |-> NoBody, result |-> None]

\* the fetch (download id, index into images_to_download)
FetchId(id, n) == <<id, n>>

\* Path.unlink(missing_ok=True)
Unlink(fs, filename) == DictDel(fs, filename)

\* the failure results of download_image (part_number="" until the caller sets it)
FailureResult(item, message) ==
    DownloadResult(<<>>, item.url, item.filename, FALSE, Some(message), None)
SuccessResult(item, size) ==
    DownloadResult(<<>>, item.url, item.filename, TRUE, None, Some(size))

\* (mutant) the owner is never written into the result
TagOwner_Forgets(result, part_number) == result

\* download_with_semaphore: result.part_number = part_number
TagOwner(result, part_number) == [result EXCEPT !.part_number = part_number]

\* the task returns `result`: leaving "async with semaphore" releases it
Return(b, k, item, result) ==
    [b EXCEPT !.tasks[k] = [@ EXCEPT !.pc = "done",
                                     !.result = Some(TagOwner(result, item.part_number))],
              !.sem = @ + 1]

Running(b) == {k \in DOMAIN b.tasks : b.tasks[k].pc \in {"get", "open", "write", "verify"}}
Waiting(b) == {k \in DOMAIN b.tasks : b.tasks[k].pc = "wait"}

\* (mutant) acquire never blocks
SemaphoreFree_NoLimit(b, k) == \A j \in Waiting(b) : k <= j

\* asyncio.Semaphore.acquire: waiters are served first come, first served
SemaphoreFree(b, k) == b.sem > 0 /\ \A j \in Waiting(b) : k <= j

FetchAcquire(id, k) ==
    /\ bg[id].pc = "gather"
    /\ bg[id].tasks[k].pc = "wait"
    /\ SemaphoreFree(bg[id], k)
    /\ bg' = [bg EXCEPT ![id] = [@ EXCEPT !.tasks[k].pc = "get", !.sem = @ - 1]]
    /\ UNCHANGED <<download_tasks, files, zips, calls, env, observed>>

\* lines 422-426 and 465-489: the reply of the remote host
FetchRespond(id, k) ==
    /\ bg[id].pc = "gather"
    /\ bg[id].tasks[k].pc = "get"
    /\ LET b == bg[id]
           item == b.items[b.i + k]
       IN  \E r \in env.net[item.url.name] :
              bg' = [bg EXCEPT ![id] =
                 CASE r.kind = "timeout" -> Return(b, k, item, FailureResult(item, "Timeout"))
                   [] r.kind = "error"   -> Return(b, k, item, FailureResult(item, "Error: ..."))
                   [] r.status # 200     -> Return(b, k, item, FailureResult(item, "HTTP status"))
                   [] OTHER -> [b EXCEPT !.tasks[k] =
                                   [@ EXCEPT !.pc = "open",
                                             !.body = [len |-> r.len, valid |-> r.valid]]]]
    /\ UNCHANGED <<download_tasks, files, zips, calls, env, observed>>

\* line 429: open(filepath, 'wb') creates the file or truncates the one there
FetchOpen(id, k) ==
    /\ bg[id].pc = "gather"
    /\ bg[id].tasks[k].pc = "open"
    /\ LET b == bg[id]
           item == b.items[b.i + k]
           me == FetchId(id, b.i + k)
           ino == IF item.filename \in DOMAIN files THEN files[item.filename].ino ELSE me
       IN  \E fails \in (IF "open" \in env.faults THEN BOOLEAN ELSE {FALSE}) :
              IF fails
              THEN /\ bg' = [bg EXCEPT ![id] =
                                Return(b, k, item, FailureResult(item, "Error: ..."))]
                   /\ files' = files
              ELSE /\ bg' = [bg EXCEPT ![id] =
                                [b EXCEPT !.tasks[k] = [@ EXCEPT !.pc = "write",
                                                                 !.fd = Some(ino)]]]
                   /\ files' = (item.filename :>
                                   [ino |-> ino, len |-> 0, valid |-> FALSE,
                                    writer |-> me]) @@ files
    /\ UNCHANGED <<download_tasks, zips, calls, env, observed>>

\* line 430: f.write(content); the bytes reach the path only while the path still
\* names the file this fetch opened
FetchWrite(id, k) ==
    /\ bg[id].pc = "gather"
    /\ bg[id].tasks[k].pc = "write"
    /\ LET b == bg[id]
           t == b.tasks[k]
           item == b.items[b.i + k]
           me == FetchId(id, b.i + k)
           mine == item.filename \in DOMAIN files
                   /\ Some(files[item.filename].ino) = t.fd
       IN  \E fails \in (IF "write" \in env.faults THEN BOOLEAN ELSE {FALSE}) :
              IF fails
              THEN \* except Exception (line 482): the file is not removed
                   /\ bg' = [bg EXCEPT ![id] =
                                Return(b, k, item, FailureResult(item, "Error: ..."))]
                   /\ files' = files
              ELSE /\ bg' = [bg EXCEPT ![id] = [b EXCEPT !.tasks[k].pc = "verify"]]
                   /\ files' = IF mine
                               THEN [files EXCEPT ![item.filename] =
                                        [@ EXCEPT !.len = t.body.len,
                                                  !.valid = t.body.valid,
                                                  !.writer = me]]
                               ELSE files
    /\ UNCHANGED <<download_tasks, zips, calls, env, observed>>

\* lines 433-464: the checks after the file is closed
FetchVerify(id, k) ==
    /\ bg[id].pc = "gather"
    /\ bg[id].tasks[k].pc = "verify"
    /\ LET b == bg[id]
           t == b.tasks[k]
           item == b.items[b.i + k]
           exists == item.filename \in DOMAIN files
       IN  IF exists /\ t.body.len > MinContentLen
           THEN IF files[item.filename].valid
                THEN /\ bg' = [bg EXCEPT ![id] =
                                  Return(b, k, item, SuccessResult(item, t.body.len))]
                     /\ files' = files
                ELSE /\ bg' = [bg EXCEPT ![id] =
                                  Return(b, k, item,
                                         FailureResult(item, "Invalid image format"))]
                     /\ files' = Unlink(files, item.filename)
           ELSE /\ bg' = [bg EXCEPT ![id] =
                             Return(b, k, item,
                                    FailureResult(item, "File too small or empty"))]
                /\ files' = Unlink(files, item.filename)
    /\ UNCHANGED <<download_tasks, zips, calls, env, observed>>

(***************************************************************************)
(* create_zip_file: an archive is the list of its entries [arcname, src],  *)
(* src being the fetch whose bytes the packaged file held.                 *)
(***************************************************************************)
\* the keys of part_groups in insertion order
RECURSIVE GroupKeys(_)
GroupKeys(results) ==
    IF results = <<>> THEN <<>>
    ELSE LET rest == GroupKeys(SelectSeq(Tail(results),
                                         LAMBDA r : r.part_number # Head(results).part_number))
         IN  <<Head(results).part_number>> \o rest

\* Path(filename).suffix or '.jpg'
FileSuffix(filename) ==
    IF filename # <<>> /\ filename[Len(filename)] \in ImageExtensions
    THEN filename[Len(filename)] ELSE ".jpg"

ZipEntries(download_results, fs) ==
    LET packed == SelectSeq(download_results, LAMBDA r : r.success /\ r.filename # <<>>)
        keys == GroupKeys(packed)
        GroupEntries(part_number) ==
            LET results == SelectSeq(packed, LAMBDA r : r.part_number = part_number)
                clean_part_folder == CleanPart(part_number)
                Entry(i) ==
                    IF results[i].filename \in DOMAIN fs
                    THEN <<[arcname |-> clean_part_folder \o <<"/">> \o clean_part_folder
                                        \o <<"_">> \o Str(i)
                                        \o <<FileSuffix(results[i].filename)>>,
                            src |-> fs[results[i].filename].writer]>>
                    ELSE <<>>
            IN  Flatten([i \in DOMAIN results |-> Entry(i)])
    IN  Flatten([g \in DOMAIN keys |-> GroupEntries(keys[g])])

(***************************************************************************)
(* download_images_background and download_images_batch.  The background   *)
(* task is [pc, items, i, sem, tasks, results, chunks]:                    *)
(*   pending  queued by download submit, not yet run                       *)
(*   gather   awaiting asyncio.gather of the chunk that starts at item i   *)
(*   sleep    awaiting asyncio.sleep(0.1) after a chunk                    *)
(*   finish   the batch returned (reached only with no work items)         *)
(*   done     the function returned                                        *)
(*   crashed  an exception left the function                               *)
(* chunks records the size of every chunk gathered so far.                 *)
(***************************************************************************)
\* (mutant) the slice stops one item short of a full chunk
ChunkTasks_DropsLast(items, i) ==
    [k \in 1 .. Min(batch_size - 1, Len(items) - i) |-> NewTask]

\* (mutant) no slicing: every remaining item is started at once
ChunkTasks_All(items, i) ==
    [k \in 1 .. (Len(items) - i) |-> NewTask]

\* lines 514-519: the tasks of images_data[i:i + batch_size]
ChunkTasks(items, i) ==
    [k \in 1 .. Min(batch_size, Len(items) - i) |-> NewTask]

\* (mutant) the status is not set to processing
BgStart_KeepsStarted(id) ==
    /\ bg[id].pc = "pending"
    /\ bg' = [bg EXCEPT ![id] =
          IF Len(bg[id].items) = 0
          THEN [@ EXCEPT !.pc = "finish", !.sem = max_concurrent]
          ELSE [@ EXCEPT !.pc = "gather", !.sem = max_concurrent,
                         !.tasks = ChunkTasks(bg[id].items, 0)]]
    /\ UNCHANGED <<download_tasks, files, zips, calls, env, observed>>

\* line 749, then download_images_batch up to its first await
BgStart(id) ==
    /\ bg[id].pc = "pending"
    /\ IF id \notin DOMAIN download_tasks
       THEN \* KeyError at line 749 and again in the handler at line 788
            /\ bg' = [bg EXCEPT ![id].pc = "crashed"]
            /\ UNCHANGED download_tasks
       ELSE /\ download_tasks' = [download_tasks EXCEPT ![id].status = "processing"]
            /\ bg' = [bg EXCEPT ![id] =
                  IF Len(bg[id].items) = 0
                  THEN [@ EXCEPT !.pc = "finish", !.sem = max_concurrent]
                  ELSE [@ EXCEPT !.pc = "gather", !.sem = max_concurrent,
                                 !.tasks = ChunkTasks(bg[id].items, 0)]]
    /\ UNCHANGED <<files, zips, calls, env, observed>>

\* lines 522-537: gather returned; the chunk's results are appended in task order
BatchResult(task) == task.result[1]

ChunkDone(b) == \A k \in DOMAIN b.tasks : b.tasks[k].pc = "done"

\* (mutant) the chunk's results are appended last task first
BgCollect_LastFirst(id) ==
    /\ bg[id].pc = "gather"
    /\ ChunkDone(bg[id])
    /\ bg' = [bg EXCEPT ![id] =
          [@ EXCEPT !.pc = "sleep",
                    !.results = @ \o [k \in DOMAIN bg[id].tasks |->
                                         BatchResult(bg[id].tasks[Len(bg[id].tasks) + 1 - k])],
                    !.chunks = Append(@, Len(bg[id].tasks)),
                    !.tasks = <<>>]]
    /\ UNCHANGED <<download_tasks, files, zips, calls, env, observed>>

BgCollect(id) ==
    /\ bg[id].pc = "gather"
    /\ ChunkDone(bg[id])
    /\ bg' = [bg EXCEPT ![id] =
          [@ EXCEPT !.pc = "sleep",
                    !.results = @ \o [k \in DOMAIN bg[id].tasks |->
                                         BatchResult(bg[id].tasks[k])],
                    !.chunks = Append(@, Len(bg[id].tasks)),
                    !.tasks = <<>>]]
    /\ UNCHANGED <<download_tasks, files, zips, calls, env, observed>>

\* (mutant) the archive is named and built whatever the results
ZipFilename_Always(id, successful_downloads) == ZipName(id)

\* line 769-772: the archive's name, only if there are successful downloads
ZipFilename(id, successful_downloads) ==
    IF successful_downloads # <<>> THEN ZipName(id) ELSE None

\* (mutant) every result is counted as downloaded
CompletedFields_CountsAll(results, successful_downloads, zip_filename) ==
    [status |-> "completed",
     downloaded_images |-> Len(results),
     results |-> results,
     zip_file |-> zip_filename]

\* lines 777-782: the update that completes the job
CompletedFields(results, successful_downloads, zip_filename) ==
    [status |-> "completed",
     downloaded_images |-> Len(successful_downloads),
     results |-> results,
     zip_file |-> zip_filename]

\* lines 788-792: the update of the exception handler
FailedFields(message) ==
    [status |-> "failed", error_message |-> message, downloaded_images |-> 0]

\* lines 756-792, which run without an await: the archive and the final update
Finish(id, results) ==
    LET successful_downloads == SelectSeq(results, LAMBDA r : r.success)
        zip_filename == ZipFilename(id, successful_downloads)
    IN  \E raises \in (IF zip_filename # None /\ "zip" \in env.faults
                       THEN BOOLEAN ELSE {FALSE}) :
           /\ zips' = IF zip_filename # None /\ ~raises
                      THEN (zip_filename :> ZipEntries(successful_downloads, files)) @@ zips
                      ELSE zips
           /\ IF id \notin DOMAIN download_tasks
              THEN \* KeyError in update (line 777 or 788): the exception leaves the task
                   /\ bg' = [bg EXCEPT ![id].pc = "crashed"]
                   /\ UNCHANGED download_tasks
              ELSE /\ bg' = [bg EXCEPT ![id].pc = "done"]
                   /\ download_tasks' = [download_tasks EXCEPT ![id] =
                         IF raises
                         THEN DictUpdate(@, FailedFields("zip"))
                         ELSE DictUpdate(@, CompletedFields(results, successful_downloads,
                                                            zip_filename))]

\* line 513: the next chunk, or the end of the batch and of the job
BgWake(id) ==
    /\ bg[id].pc = "sleep"
    /\ LET b == bg[id]
           i == b.i + batch_size
       IN  IF i < Len(b.items)
           THEN /\ bg' = [bg EXCEPT ![id] = [@ EXCEPT !.pc = "gather", !.i = i,
                                                      !.tasks = ChunkTasks(b.items, i)]]
                /\ UNCHANGED <<download_tasks, zips>>
           ELSE Finish(id, b.results)
    /\ UNCHANGED <<files, calls, env, observed>>

\* a job with no work items: the batch returns [] at once
BgFinishEmpty(id) ==
    /\ bg[id].pc = "finish"
    /\ Finish(id, bg[id].results)
    /\ UNCHANGED <<files, calls, env, observed>>

(***************************************************************************)
(* Status poll: GET /download-status/{download_id}.                        *)
(***************************************************************************)
\* the DownloadResponse of a poll of an id the tracker holds
DownloadStatus(download_id) ==
    LET task_data == download_tasks[download_id]
    IN  [download_id |-> download_id,
         status |-> DictGet(task_data, "status", "unknown"),
         total_images |-> DictGet(task_data, "total_images", 0),
         downloaded_images |-> DictGet(task_data, "downloaded_images", 0),
         results |-> DictGet(task_data, "results", <<>>),
         zip_file |-> DictGet(task_data, "zip_file", None)]

\* (mutant) the entry is read with download_tasks.get(download_id, {}): an id
\* the tracker does not hold is answered like an empty entry
StatusPoll_Lenient(download_id) ==
    IF download_id \notin DOMAIN download_tasks
    THEN [code |-> 200,
          body |-> <<[download_id |-> download_id, status |-> "unknown",
                      total_images |-> 0, downloaded_images |-> 0,
                      results |-> <<>>, zip_file |-> None]>>]
    ELSE [code |-> 200, body |-> <<DownloadStatus(download_id)>>]

\* lines 797-809: 404 for an id the tracker does not hold
StatusPoll(download_id) ==
    IF download_id \notin DOMAIN download_tasks
    THEN [code |-> 404, body |-> <<>>]
    ELSE [code |-> 200, body |-> <<DownloadStatus(download_id)>>]

\* (mutant) the poll takes the results out of the entry: task_data.pop("results", [])
get_download_status_Pops ==
    \E download_id \in {0} \cup IssuedIds :
       IF download_id \notin DOMAIN download_tasks
          \/ "results" \notin DOMAIN download_tasks[download_id]
       THEN UNCHANGED vars
       ELSE /\ download_tasks' = [download_tasks EXCEPT ![download_id] =
                                     DictDel(@, "results")]
            /\ UNCHANGED <<files, zips, bg, calls, env, observed>>

\* a poll answers and changes nothing
get_download_status ==
    /\ \A download_id \in {0} \cup IssuedIds :
          StatusPoll(download_id).code \in {200, 404}
    /\ \E answer \in {Observe([op |-> "get_download_status", id |-> download_id,
                                code |-> StatusPoll(download_id).code,
                                body |-> StatusPoll(download_id).body]) :
                           download_id \in {0} \cup IssuedIds} :
          observed' = answer
    /\ UNCHANGED <<download_tasks, files, zips, bg, calls, env>>

(***************************************************************************)
(* Archive fetch: GET /download-zip/{download_id}.                         *)
(***************************************************************************)
ZipFetch_AnyJob(download_id) ==
    IF download_id \notin DOMAIN download_tasks
    THEN [code |-> 404, detail |-> "Download ID not found", body |-> <<>>]
    ELSE [code |-> 200, detail |-> "", body |-> <<>>]

\* lines 814-831: the answer; the body of a 200 is the archive
ZipFetch(download_id) ==
    IF download_id \notin DOMAIN download_tasks
    THEN [code |-> 404, detail |-> "Download ID not found", body |-> <<>>]
    ELSE LET zip_filename == DictGet(download_tasks[download_id], "zip_file", None)
         IN  IF zip_filename = None
             THEN [code |-> 404, detail |-> "ZIP file not available", body |-> <<>>]
             ELSE IF zip_filename \notin DOMAIN zips
             THEN [code |-> 404, detail |-> "ZIP file not found", body |-> <<>>]
             ELSE [code |-> 200, detail |-> "", body |-> <<zips[zip_filename]>>]

download_zip_file ==
    /\ \A download_id \in {0} \cup IssuedIds :
          ZipFetch(download_id).code \in {200, 404}
    /\ \E answer \in {Observe([op |-> "download_zip_file", id |-> download_id,
                                code |-> ZipFetch(download_id).code,
                                body |-> ZipFetch(download_id).body]) :
                           download_id \in {0} \cup IssuedIds} :
          observed' = answer
    /\ UNCHANGED <<download_tasks, files, zips, bg, calls, env>>

(***************************************************************************)
(* Cleanup: DELETE /cleanup/{task_id}.                                     *)
(***************************************************************************)
RECURSIVE UnlinkAll(_, _)
UnlinkAll(fs, names) ==
    IF names = <<>> THEN fs ELSE UnlinkAll(Unlink(fs, Head(names)), Tail(names))

\* the status code of the answer
cleanup_status(task_id) == IF task_id \in DOMAIN download_tasks THEN 200 ELSE 404

cleanup_task ==
    /\ Served < env.maxRequests
    /\ \E task_id \in {0} \cup IssuedIds :
          IF cleanup_status(task_id) = 404
          THEN /\ observed' = Observe([op |-> "cleanup_task", id |-> task_id,
                                       code |-> 404, body |-> <<>>])
               /\ UNCHANGED <<download_tasks, files, zips, bg, calls, env>>
          ELSE LET task_data == download_tasks[task_id]
                   results == DictGet(task_data, "results", <<>>)
                   downloaded == SelectSeq(results, LAMBDA r : r.success /\ r.filename # <<>>)
                   zip_file == DictGet(task_data, "zip_file", None)
               IN  /\ files' = UnlinkAll(files, [i \in DOMAIN downloaded |->
                                                    downloaded[i].filename])
                   /\ zips' = IF zip_file # None THEN DictDel(zips, zip_file) ELSE zips
                   /\ download_tasks' = DictDel(download_tasks, task_id)
                   /\ calls' = [calls EXCEPT !.cleanup = @ + 1]
                   /\ observed' = Observe([op |-> "cleanup_task", id |-> task_id,
                                           code |-> 200, body |-> <<>>])
                   /\ UNCHANGED <<bg, env>>

(***************************************************************************)
(* The outside world: the requests clients make, what the provider and the *)
(* remote hosts answer, and which local I/O calls can raise.  It is chosen *)
(* by the initial state and never changes.                                 *)
(***************************************************************************)
PN_A_B == <<"A", "/", "B">>
PN_AsB == <<"A", " ", "B">>
PN_P1 == <<"P", "-", "1">>
PN_P2 == <<"P", "-", "2">>
PN_P3 == <<"P", "-", "3">>

Url(name, suffix) == [name |-> name, suffix |-> suffix]

\* a raw hit that the selector admits whatever the part number: its title
\* holds three of the domain keywords, its source label is its own
GoodHit(url) ==
    [title |-> <<"g", "e", "n", "u", "i", "n", "e", " ", "o", "e", "m", " ", "r", "e", "l", "a", "y">>,
     source |-> IF url.name = "" THEN <<>> ELSE <<url.name>>,
     original |-> url]

\* what the provider answers to one query
Reply(urls) == [images_results |-> [i \in DOMAIN urls |-> GoodHit(urls[i])]]
ProviderError == [error |-> "Invalid API key"]
ProviderRaises == [exception |-> "Connection refused"]

\* a re-process request
ReprocessRequest(part_numbers, search_strategy) ==
    [part_numbers |-> part_numbers, search_strategy |-> search_strategy]

\* what a remote host can answer to a GET
HttpError == [kind |-> "status", status |-> 404, len |-> 0, valid |-> FALSE]
TimedOut == [kind |-> "timeout", status |-> 0, len |-> 0, valid |-> FALSE]
ClientError == [kind |-> "error", status |-> 0, len |-> 0, valid |-> FALSE]
Body(len, valid) == [kind |-> "body", status |-> 200, len |-> len, valid |-> valid]

UrlNames == <<"a", "b", "c", "d", "e">>

\* Two part numbers with the same clean form, searched once or more; a host
\* answers 404, an image or bytes that are no image; writing an image or the
\* archive may raise.
MainEnv ==
    [requests |-> {<<PN_A_B, PN_AsB>>},
     provider |-> {<<ProviderError, Reply(<<Url("a", ".PNG")>>)>>,
                   <<Reply(<<Url("a", ".PNG")>>), Reply(<<Url("b", ".png")>>)>>},
     filters |-> {<<>>, <<PN_A_B>>},
     net |-> [n \in Range(UrlNames) |->
                 {HttpError, Body(2048, TRUE), Body(2048, FALSE)}],
     manufacturers |-> {None},
     counts |-> {max_images_per_part},
     reprocess |-> {ReprocessRequest(<<PN_A_B>>, None)},
     maxReprocess |-> 0,
     observe |-> FALSE,
     faults |-> {"write", "zip"},
     maxRequests |-> MaxRequests,
     maxSearches |-> MaxRequests,
     maxFetches |-> MaxFetches]

\* One search that found one image; a host may answer anything and every local
\* I/O call may raise.
FetchEnv ==
    [requests |-> {<<PN_A_B, PN_AsB>>},
     provider |-> {<<ProviderError, Reply(<<EmptyUrl, Url("a", ".bmp")>>)>>},
     filters |-> {<<>>, <<PN_A_B>>},
     net |-> [n \in Range(UrlNames) |->
                 {HttpError, TimedOut, ClientError, Body(512, TRUE),
                  Body(1010, TRUE), Body(2048, TRUE), Body(2048, FALSE)}],
     manufacturers |-> {None},
     counts |-> {max_images_per_part},
     reprocess |-> {ReprocessRequest(<<PN_A_B>>, None)},
     maxReprocess |-> 0,
     observe |-> FALSE,
     faults |-> {"open", "write", "zip"},
     maxRequests |-> MaxRequests,
     maxSearches |-> 1,
     maxFetches |-> MaxFetches]

\* One search of three part numbers that yields n images, up to
\* max_images_per_part per part; each host always gives the same answer.
BatchUrls(n) == [i \in 1 .. n |-> Url(UrlNames[i], ".jpg")]
BatchReplies(n) ==
    [p \in 1 .. 3 |->
        Reply(BatchUrls(Min(max_images_per_part,
                            IF n > max_images_per_part * (p - 1)
                            THEN n - max_images_per_part * (p - 1) ELSE 0)))]
BatchSizes == {0} \cup ((batch_size - 1) .. MaxBatchItems)

BatchEnv ==
    [requests |-> {<<PN_P1, PN_P2, PN_P3>>},
     provider |-> {BatchReplies(n) : n \in BatchSizes},
     filters |-> {<<>>},
     net |-> [n \in Range(UrlNames) |->
                 CASE n = "b" -> {HttpError}
                   [] n = "c" -> {ClientError}
                   [] n = "e" -> {Body(2048, FALSE)}
                   [] OTHER -> {Body(2048, TRUE)}],
     manufacturers |-> {None},
     counts |-> {max_images_per_part},
     reprocess |-> {ReprocessRequest(<<PN_P1>>, None)},
     maxReprocess |-> 0,
     observe |-> FALSE,
     faults |-> {},
     maxRequests |-> MaxRequests,
     maxSearches |-> 1,
     maxFetches |-> MaxBatchItems]

\* A watched client: one part number, searched and re-processed, with one
\* small download; the provider finds the images a and b again and again.
ApiEnv ==
    [requests |-> {<<PN_P1>>},
     manufacturers |-> {None},
     counts |-> {max_images_per_part},
     provider |-> {<<ProviderError>>,
                   <<Reply(<<Url("a", ".jpg")>>)>>,
                   <<Reply(<<Url("a", ".jpg"), Url("b", ".jpg")>>)>>},
     reprocess |-> {ReprocessRequest(<<PN_P1>>, None)},
     maxReprocess |-> MaxRequests,
     observe |-> TRUE,
     filters |-> {<<>>},
     net |-> [n \in Range(UrlNames) |->
                 IF n = "a" THEN {Body(2048, TRUE)} ELSE {HttpError}],
     faults |-> {},
     maxRequests |-> MaxRequests,
     maxSearches |-> MaxRequests,
     maxFetches |-> MaxFetches]

\* A watched client that searches zero to three part numbers with any count
\* of images per part; the provider answers each query with hits, an error or
\* a failure of the call; one hit has no URL.  Only host a serves its image,
\* and writing the archive may raise.
RequestEnv ==
    [requests |-> {<<>>, <<PN_P1>>, <<PN_P1, PN_P2>>, <<PN_P1, PN_P2, PN_P3>>},
     manufacturers |-> {None},
     counts |-> (min_images_per_part - 1) .. (max_images_per_part + 1),
     provider |-> {<<>>,
                   <<Reply(<<Url("a", ".jpg"), EmptyUrl>>)>>,
                   <<ProviderError, Reply(<<Url("a", ".jpg"), Url("b", ".jpg")>>)>>,
                   <<Reply(<<Url("a", ".jpg")>>), ProviderRaises>>,
                   <<Reply(<<Url("a", ".jpg")>>), ProviderError,
                     Reply(<<Url("b", ".jpg"), EmptyUrl>>)>>},
     reprocess |-> {ReprocessRequest(<<PN_P1>>, None)},
     maxReprocess |-> 0,
     observe |-> TRUE,
     filters |-> {<<>>, <<PN_P1>>, <<PN_P3, PN_P2>>},
     net |-> [n \in Range(UrlNames) |->
                 IF n = "a" THEN {Body(2048, TRUE)} ELSE {HttpError}],
     faults |-> {"zip"},
     maxRequests |-> MaxRequests,
     maxSearches |-> 1,
     maxFetches |-> MaxFetches]

InitState ==
    /\ download_tasks = <<>>
    /\ files = <<>>
    /\ zips = <<>>
    /\ bg = <<>>
    /\ calls = [search |-> 0, download |-> 0, cleanup |-> 0, fetches |-> 0,
                queries |-> 0]
    /\ observed = Nothing

Init == InitState /\ env = MainEnv

InitFetch == InitState /\ env = FetchEnv

InitBatch == InitState /\ env = BatchEnv

InitApi == InitState /\ env = ApiEnv

InitRequest == InitState /\ env = RequestEnv

Next ==
    \/ search_part_images
    \/ reprocess_part_images
    \/ download_images
    \/ get_download_status
    \/ download_zip_file
    \/ cleanup_task
    \/ \E id \in DOMAIN bg : BgStart(id)
    \/ \E id \in DOMAIN bg : BgCollect(id)
    \/ \E id \in DOMAIN bg : BgWake(id)
    \/ \E id \in DOMAIN bg : BgFinishEmpty(id)
    \/ \E id \in DOMAIN bg : \E k \in DOMAIN bg[id].tasks : FetchAcquire(id, k)
    \/ \E id \in DOMAIN bg : \E k \in DOMAIN bg[id].tasks : FetchRespond(id, k)
    \/ \E id \in DOMAIN bg : \E k \in DOMAIN bg[id].tasks : FetchOpen(id, k)
    \/ \E id \in DOMAIN bg : \E k \in DOMAIN bg[id].tasks : FetchWrite(id, k)
    \/ \E id \in DOMAIN bg : \E k \in DOMAIN bg[id].tasks : FetchVerify(id, k)

Spec == Init /\ [][Next]_vars

SpecFetch == InitFetch /\ [][Next]_vars

SpecBatch == InitBatch /\ [][Next]_vars

SpecApi == InitApi /\ [][Next]_vars

SpecRequest == InitRequest /\ [][Next]_vars

\* One step of the background task of a download job or of one of its fetches.
\* The event loop runs every task that is ready, and a fetch ends by a response,
\* an error or its timeout: no job is left waiting for ever.
JobStep(id) ==
    /\ id \in DOMAIN bg
    /\ \/ BgStart(id) \/ BgCollect(id) \/ BgWake(id) \/ BgFinishEmpty(id)
       \/ \E k \in DOMAIN bg[id].tasks :
             \/ FetchAcquire(id, k) \/ FetchRespond(id, k) \/ FetchOpen(id, k)
             \/ FetchWrite(id, k) \/ FetchVerify(id, k)

SpecLive == Init /\ [][Next]_vars /\ \A id \in 1 .. MaxRequests : WF_vars(JobStep(id))

(***************************************************************************)
(* The search service called on its own: one call of a method with inputs  *)
(* drawn from the outside world, the call and what it returned being kept  *)
(* as the last answer.                                                     *)
(***************************************************************************)
MaxHits == 3      \* raw hits in one provider answer
MaxCount == 3     \* the largest max_images asked of the selector

\* num_results of reprocess_part_images when the caller gives none
reprocess_num_results == 4

PN_CT100 == <<"C", "T", "-", "1", "0", "0">>
Schneider == <<"S", "c", "h", "n", "e", "i", "d", "e", "r">>

\* a raw hit of the provider: a dict with a title and any of the other keys
Hit(title, more) == [title |-> title] @@ more
Sized(width, height) == [original_width |-> width, original_height |-> height]

TitleA == <<"C", "T", "-", "1", "0", "0", " ", "S", "c", "h", "n", "e", "i", "d", "e", "r", " ", "i", "n", "d", "u", "s", "t", "r", "i", "a", "l", " ", "c", "o", "n", "t", "a", "c", "t", "o", "r">>
TitleB == <<"c", "t", "1", "0", "0", " ", "l", "o", "g", "o", " ", "b", "a", "n", "n", "e", "r">>
TitleLogo == <<"c", "o", "m", "p", "a", "n", "y", " ", "l", "o", "g", "o">>
HitA(more) == Hit(TitleA, more)
HitB(more) == Hit(TitleB, more)

\* the source labels of the hits
SourceLabels == {<<>>, <<"e", "B", "a", "y">>, <<"A", "B", "B", ".", "c", "o", "m">>, <<"S", "c", "h", "n", "e", "i", "d", "e", "r", " ", "e", "B", "a", "y", " ", "s", "t", "o", "r", "e">>, <<"s", "h", "o", "p">>}

\* hits to score: three titles, with and without a source label, of several sizes
ScoreHits ==
    {Hit(title, source @@ size) :
        title \in {TitleA, TitleB, TitleLogo},
        source \in {<<>>} \cup {[source |-> s] : s \in SourceLabels \ {<<>>}},
        size \in {<<>>, Sized(50, 50), Sized(400, 400), Sized(3000, 3000),
                  Sized(400, 0)}}

\* hits to select from: with an "original" URL, a "link" URL, both or neither;
\* three of one source; the last one scores exactly the threshold
SelectHits ==
    {HitA([source |-> <<"e", "B", "a", "y">>, original |-> Url("a", ".jpg")]),
     HitB([source |-> <<"e", "B", "a", "y">>, original |-> Url("b", ".jpg")] @@ Sized(50, 50)),
     Hit(<<"C", "T", "-", "1", "0", "0", " ", "r", "e", "l", "a", "y">>, [source |-> <<"e", "B", "a", "y">>, link |-> Url("c", ".jpg")]),
     Hit(<<"C", "T", "-", "1", "0", "0", " ", "b", "r", "e", "a", "k", "e", "r">>, [source |-> <<"M", "o", "u", "s", "e", "r">>, original |-> Url("d", ".jpg"),
                                             link |-> Url("c", ".jpg")]),
     Hit(<<"c", "t", "-", "1", "0", "0", " ", "g", "e", "n", "u", "i", "n", "e">>, <<>>),
     Hit(TitleLogo, [original |-> Url("e", ".jpg")])}

\* the hits the provider answers to the query of a re-process: those that the
\* selector admits, one of each kind of URL
ReprocessHits == {hit \in SelectHits : hit.title \notin {TitleB, TitleLogo}}

SeqsUpTo(S, n) == UNION {[1 .. k -> S] : k \in 0 .. n}

\* hit A and hit B alone, in either order, of any source label and size
ScenarioHits(title) ==
    {Hit(title, [source |-> s] @@ size) :
        s \in {<<"e", "B", "a", "y">>, <<"s", "h", "o", "p">>}, size \in {<<>>, Sized(50, 50)}}
ScenarioLists ==
    UNION {{<<a, b>>, <<b, a>>} : a \in ScenarioHits(TitleA), b \in ScenarioHits(TitleB)}

ExcludeLists ==
    {<<>>,
     <<Url("a", ".jpg")>>,
     <<Url("c", ".jpg")>>,
     <<Url("b", ".jpg"), EmptyUrl>>,
     <<Url("x", ".jpg")>>}

\* the calls made of the service: the method and its arguments; <<"r", "e", "s", "u", "l", "t", "s">> is
\* what the provider answers to the query of a re-process
ScoreCalls ==
    {[fn |-> "_score_image_relevance", image_data |-> image_data,
      part_number |-> PN_CT100, manufacturer |-> manufacturer] :
        image_data \in ScoreHits, manufacturer \in {None, Schneider}}
SelectCalls ==
    {[fn |-> "_select_best_images", images |-> images, part_number |-> PN_CT100,
      manufacturer |-> Schneider, max_images |-> max_images] :
        images \in SeqsUpTo(SelectHits, MaxHits) \cup ScenarioLists,
        max_images \in 0 .. MaxCount}
ReprocessCalls ==
    {[fn |-> "reprocess_part_images", part_number |-> PN_CT100,
      manufacturer |-> Schneider, num_results |-> reprocess_num_results,
      strategy |-> strategy, exclude_urls |-> exclude_urls, results |-> results] :
        strategy \in {"alternative"}, exclude_urls \in ExcludeLists,
        results \in {[images_results |-> raw] : raw \in SeqsUpTo(ReprocessHits, MaxHits)}
                    \cup {ProviderError, ProviderRaises}}

\* the outside world of one call
ServiceEnv(call) == [observe |-> TRUE, call |-> call]

InitService ==
    /\ InitState
    /\ env \in {ServiceEnv(call) : call \in ScoreCalls \cup SelectCalls \cup ReprocessCalls}

\* what a call of a method of the service returned
Returned(call, returned) ==
    Observe([op |-> call.fn, id |-> -1, code |-> 0,
             body |-> <<[call |-> call, returned |-> returned]>>])

\* _score_image_relevance(image_data, part_number, manufacturer); part_match is
\* what lines 114-118 added to the score, source_bonus what lines 132-147 added
ScoreCall ==
    /\ env.call.fn = "_score_image_relevance"
    /\ LET call == env.call
       IN  observed' = Returned(call,
              [part_match |-> PartMatchScore(StrLower(call.image_data.title),
                                             call.part_number),
               source_bonus |-> SourceTrustBonus(SourceOf(call.image_data)),
               score |-> score_image_relevance(call.image_data, call.part_number,
                                               call.manufacturer)])
    /\ UNCHANGED <<download_tasks, files, zips, bg, calls, env>>

\* _select_best_images(images, part_number, manufacturer, max_images);
\* scored_images is the list of line 178, selected the list returned
SelectCall ==
    /\ env.call.fn = "_select_best_images"
    /\ LET call == env.call
       IN  observed' = Returned(call,
              [scored_images |-> SortByScore(ScoredImages(call.images, call.part_number,
                                                         call.manufacturer)),
               selected |-> select_best_images(call.images, call.part_number,
                                               call.manufacturer, call.max_images)])
    /\ UNCHANGED <<download_tasks, files, zips, bg, calls, env>>

\* GoogleImageSearchService.reprocess_part_images(part_number, manufacturer,
\* num_results, strategy, exclude_urls)
ReprocessCall ==
    /\ env.call.fn = "reprocess_part_images"
    /\ LET call == env.call
       IN  observed' = Returned(call,
              reprocess_part_images_service(call.part_number, call.manufacturer,
                                            call.num_results, call.strategy,
                                            call.exclude_urls, call.results))
    /\ UNCHANGED <<download_tasks, files, zips, bg, calls, env>>

NextService == ScoreCall \/ SelectCall \/ ReprocessCall

SpecService == InitService /\ [][NextService]_vars

(***************************************************************************)
(* Properties.                                                             *)
(***************************************************************************)
DownloadStatuses == {"started", "processing", "completed", "failed"}
StatusSteps == {<<"started", "processing">>, <<"processing", "completed">>,
                <<"processing", "failed">>}

Successes(results) == SelectSeq(results, LAMBDA r : r.success)

\* C1: a download job's status is one of started, processing, completed, failed;
\* a job enters the tracker as started under a fresh id, and while its entry
\* exists the status changes only started -> processing, processing -> completed
\* or processing -> failed, so completed and failed are final.
C1_StatusStateMachine ==
    [][\A id \in IssuedIds' :
          IsDownloadJob(id)' =>
             /\ download_tasks'[id].status \in DownloadStatuses
             /\ IF IsDownloadJob(id)
                THEN \/ download_tasks'[id].status = download_tasks[id].status
                     \/ <<download_tasks[id].status, download_tasks'[id].status>>
                           \in StatusSteps
                ELSE /\ id \notin IssuedIds
                     /\ download_tasks'[id].status = "started"]_vars

\* C1 witness: one job has failed and another has completed
C1_Witness ==
    \E id1, id2 \in DownloadJobs :
       /\ download_tasks[id1].status = "failed"
       /\ download_tasks[id2].status = "completed"

\* C2: at every status, what a poll reports as downloaded_images is the number
\* of results with success = true in the results it reports.
C2_DownloadedCount ==
    \A id \in DownloadJobs :
       LET polled == StatusPoll(id).body[1]
       IN  polled.downloaded_images = Len(Successes(polled.results))

\* C2 witness: a completed job with a successful and a failed result
C2_Witness ==
    \E id \in DownloadJobs :
       /\ download_tasks[id].status = "completed"
       /\ download_tasks[id].downloaded_images >= 1
       /\ Len(download_tasks[id].results) > download_tasks[id].downloaded_images

\* C3: a job holds an archive reference exactly when its results list holds a
\* result with success = true.
C3_ArchiveIffSuccess ==
    \A id \in DownloadJobs :
       (DictGet(download_tasks[id], "zip_file", None) # None)
          <=> (Successes(download_tasks[id].results) # <<>>)

\* C3 witness: a completed job without a success beside a job with an archive
C3_Witness ==
    \E id1, id2 \in DownloadJobs :
       /\ download_tasks[id1].status = "completed"
       /\ download_tasks[id1].zip_file = None
       /\ download_tasks[id2].status = "completed"
       /\ download_tasks[id2].zip_file = ZipName(id2)

\* C4 (as claimed): the file names of a download job's work items are pairwise
\* distinct, whatever part numbers the search job holds.
C4_FilenamesDistinct ==
    \A id \in DOMAIN bg :
       \A m, n \in DOMAIN bg[id].items :
          m # n => bg[id].items[m].filename # bg[id].items[n].filename

\* the fetches that hold a response body: they open, write or unlink their path
Touching == {f \in {<<id, k>> : id \in DOMAIN bg, k \in 1 .. batch_size} :
                /\ f[2] \in DOMAIN bg[f[1]].tasks
                /\ bg[f[1]].tasks[f[2]].pc \in {"open", "write", "verify"}}
PathOf(f) == bg[f[1]].items[bg[f[1]].i + f[2]].filename

\* C5 (as claimed): no two fetches in flight at the same time, of one job or of
\* two, write to or delete the same path.
C5_NoSharedPath ==
    \A f, g \in Touching : f # g => PathOf(f) # PathOf(g)

\* the fetch k of job id returns in this step
Returns(id, k) ==
    /\ k \in DOMAIN bg[id].tasks
    /\ bg[id].tasks[k].pc \in {"get", "open", "write", "verify"}
    /\ bg'[id].tasks[k].pc = "done"

\* C6 (as claimed): when download_image returns success a file is at the
\* assigned name, and when it returns a failure no file this fetch wrote is.
C6_FetchLeavesNoFile ==
    [][\A id \in DOMAIN bg : \A k \in 1 .. batch_size :
          Returns(id, k) =>
             LET result == bg'[id].tasks[k].result[1]
                 me == FetchId(id, bg[id].i + k)
             IN  IF result.success
                 THEN result.filename \in DOMAIN files'
                 ELSE ~(/\ result.filename \in DOMAIN files'
                        /\ files'[result.filename].writer = me)]_vars

\* C7: in one batch run never more than max_concurrent fetches are inside
\* download_image, and the semaphore counts them.
C7_ConcurrencyCap ==
    \A id \in DOMAIN bg :
       /\ Cardinality(Running(bg[id])) <= max_concurrent
       /\ bg[id].pc = "gather" =>
             bg[id].sem = max_concurrent - Cardinality(Running(bg[id]))

\* C7 witness: the cap is reached while other fetches of the chunk wait
C7_Witness ==
    \E id \in DOMAIN bg :
       /\ Cardinality(Running(bg[id])) = max_concurrent
       /\ Waiting(bg[id]) # {}

IsPrefix(s, t) == Len(s) <= Len(t) /\ \A i \in DOMAIN s : s[i] = t[i]

\* ceil(n / batch_size) chunks of batch_size items, the last one of the rest
ExpectedChunks(n) ==
    [c \in 1 .. ((n + batch_size - 1) \div batch_size) |->
        IF c * batch_size <= n THEN batch_size ELSE n % batch_size]

\* C8: the chunks gathered are those of ExpectedChunks, every gathered chunk adds
\* one result per item, the n-th result is the n-th item's, a finished job has
\* all its chunks and N results, and a completed job reports total_images results.
C8_ChunksAndCount ==
    \A id \in DOMAIN bg :
       LET b == bg[id]
           n == Len(b.items)
       IN  /\ IsPrefix(b.chunks, ExpectedChunks(n))
           /\ Len(b.results) = SeqSum(b.chunks)
           /\ \A j \in DOMAIN b.results :
                 /\ b.results[j].filename = b.items[j].filename
                 /\ b.results[j].image_url = b.items[j].url
           /\ b.pc = "done" => b.chunks = ExpectedChunks(n) /\ Len(b.results) = n
           /\ (IsDownloadJob(id) /\ download_tasks[id].status = "completed") =>
                 /\ download_tasks[id].total_images = n
                 /\ Len(download_tasks[id].results) = download_tasks[id].total_images

\* C8 witness: a completed job of more than batch_size items, the last chunk short
C8_Witness ==
    \E id \in DOMAIN bg :
       /\ bg[id].pc = "done"
       /\ IsDownloadJob(id) /\ download_tasks[id].status = "completed"
       /\ Len(bg[id].chunks) = 2
       /\ bg[id].chunks[2] < batch_size

ChunkOf(n) == (n - 1) \div batch_size

\* C9: a fetch has left the semaphore queue only if every item of every earlier
\* chunk has its result in the result list.
C9_ChunkBarrier ==
    \A id \in DOMAIN bg : \A k \in DOMAIN bg[id].tasks :
       bg[id].tasks[k].pc # "wait" =>
          \A m \in 1 .. (bg[id].i + k) :
             ChunkOf(m) < ChunkOf(bg[id].i + k) => m <= Len(bg[id].results)

\* C9 witness: a fetch of the second chunk is running
C9_Witness ==
    \E id \in DOMAIN bg :
       /\ bg[id].i = batch_size
       /\ Running(bg[id]) # {}

\* the outcome a fetch of this URL has when nothing else runs (SpecBatch: every
\* host gives one answer)
OwnSuccess(url) == env.net[url.name] = {Body(2048, TRUE)}

\* C10: whatever fetches fail, every result collected belongs to its item, has
\* that item's own outcome and carries the part number the item was submitted
\* with; a failure is a result with success = false and a message; a finished
\* job has a result for every item.
C10_FaultIsolation ==
    \A id \in DOMAIN bg :
       LET b == bg[id]
       IN  /\ \A j \in DOMAIN b.results :
                 /\ b.results[j].part_number = b.items[j].part_number
                 /\ b.results[j].success <=> OwnSuccess(b.items[j].url)
                 /\ ~b.results[j].success => b.results[j].error_message # None
           /\ \A k \in DOMAIN b.tasks :
                 b.tasks[k].pc = "done" =>
                    b.tasks[k].result[1].part_number = b.items[b.i + k].part_number
           /\ b.pc = "done" => Len(b.results) = Len(b.items)

\* C10 witness: a finished job with a fetch that raised, one that got a 404 and
\* successful fetches after them
C10_Witness ==
    \E id \in DOMAIN bg :
       /\ bg[id].pc = "done"
       /\ \E j, h, l \in DOMAIN bg[id].results :
             /\ bg[id].results[j].error_message = Some("Error: ...")
             /\ bg[id].results[h].error_message = Some("HTTP status")
             /\ j < l /\ h < l
             /\ bg[id].results[l].success

\* C11 (as claimed): the archive of a completed job with k >= 1 results of
\* success = true holds exactly k entries, and a completed job with k = 0 has
\* no archive on local storage.
C11_ArchiveEntryCount ==
    \A id \in DownloadJobs :
       download_tasks[id].status = "completed" =>
          LET k == Len(Successes(download_tasks[id].results))
          IN  IF k >= 1
              THEN /\ download_tasks[id].zip_file \in DOMAIN zips
                   /\ Len(zips[download_tasks[id].zip_file]) = k
              ELSE ZipName(id) \notin DOMAIN zips

\* C12 (as claimed): every download job that download submit accepted
\* eventually has the status completed or failed in the tracker, whatever
\* polls, cleanups and other jobs run meanwhile.
C12_EveryJobEnds ==
    \A id \in 1 .. MaxRequests :
       IsDownloadJob(id) ~>
          (IsDownloadJob(id) /\ download_tasks[id].status \in {"completed", "failed"})

\* the download jobs that cleanup has removed (nothing else deletes an entry)
CleanedUp == {id \in DOMAIN bg : id \notin DOMAIN download_tasks}

\* C13 (as claimed): once cleanup of a download job has returned, whatever the
\* job's status was, no image file downloaded for that job and no archive of it
\* is on local storage, then or later.
C13_CleanupLeavesNothing ==
    \A id \in CleanedUp :
       /\ ZipName(id) \notin DOMAIN zips
       /\ \A f \in DOMAIN files : files[f].writer[1] # id

\* C15: from the moment a download job is completed and for as long as no
\* cleanup removes it, every poll of it returns the same status, total_images,
\* downloaded_images, results and archive reference; a poll leaves the tracker
\* as it is.
C15_PollIdempotent ==
    [][/\ \A id \in 1 .. MaxRequests :
             (/\ IsDownloadJob(id)
              /\ download_tasks[id].status = "completed"
              /\ id \in DOMAIN download_tasks') =>
                 StatusPoll(id)' = StatusPoll(id)
       /\ get_download_status => download_tasks' = download_tasks]_vars

\* C15 witness: a job completed with results, and another job completed after it
C15_Witness ==
    \E id1, id2 \in DownloadJobs :
       /\ id1 # id2
       /\ download_tasks[id1].status = "completed"
       /\ download_tasks[id1].results # <<>>
       /\ download_tasks[id2].status = "completed"
       /\ bg[id1].pc = "done" /\ bg[id2].pc = "done"

\* the operations that look a job up by the id the request names
LookupOps == {"reprocess_part_images", "download_images", "get_download_status",
              "download_zip_file", "cleanup_task"}

\* C14: a re-process, download submit, status poll, archive fetch or cleanup
\* that names an id the tracker does not hold is answered 404 in that same
\* step, and the step changes neither the tracker nor local storage, starts
\* no background task and issues no provider query.
C14_UnknownIdNotFound ==
    [][(/\ observed' # observed
        /\ observed'.op \in LookupOps
        /\ observed'.id \notin DOMAIN download_tasks) =>
           /\ observed'.code = 404
           /\ UNCHANGED <<download_tasks, files, zips, bg, calls>>]_vars

\* C14 witness: a cleanup that named an unknown id was answered 404 while the
\* tracker held jobs and local storage held a file
C14_Witness ==
    /\ observed.op = "cleanup_task"
    /\ observed.code = 404
    /\ observed.id \notin DOMAIN download_tasks
    /\ DownloadJobs # {}
    /\ files # <<>>

\* the jobs a re-processed job descends from, as far as the tracker holds them
RECURSIVE Ancestors(_)
Ancestors(id) ==
    IF id \in DOMAIN download_tasks /\ "reprocessed_from" \in DOMAIN download_tasks[id]
    THEN LET from == download_tasks[id].reprocessed_from
         IN  IF from \in DOMAIN download_tasks THEN {from} \cup Ancestors(from)
             ELSE {}
    ELSE {}

\* the original URLs a search job holds for a part number
UrlsOf(id, part_number) ==
    UNION {{r.images[k].original_url : k \in DOMAIN r.images} :
              r \in {x \in Range(download_tasks[id].search_results) :
                        x.part_number = part_number}}

\* C16 (as claimed): what a re-process returns for a part number holds no image
\* whose original URL an earlier job of the same lineage returned for that
\* part number, also when the job re-processed was itself a re-process.
C16_NoResurfacing ==
    \A id \in ReprocessJobs : \A earlier \in Ancestors(id) :
       \A r \in Range(download_tasks[id].search_results) :
          UrlsOf(id, r.part_number) \cap UrlsOf(earlier, r.part_number) = {}

\* the last call of a method of the service and what it returned
LastCall == observed.body[1].call
LastReturned == observed.body[1].returned

\* C17: whatever raw hits the provider answers (with an "original" URL, a
\* "link" URL, both or neither), the PartSearchResult of the service's
\* re-process with a non-empty exclusion list holds no ImageResult whose
\* original_url is in that list.
C17_ExcludedNeverReturned ==
    (observed.op = "reprocess_part_images" /\ LastCall.exclude_urls # <<>>) =>
       \A i \in DOMAIN LastReturned.images :
          LastReturned.images[i].original_url \notin Range(LastCall.exclude_urls)

\* C17 witness: the provider answered a hit that has only a "link" URL, which
\* is in the exclusion list, and another hit, which was returned
C17_Witness ==
    /\ observed.op = "reprocess_part_images"
    /\ LastCall.exclude_urls # <<>>
    /\ "images_results" \in DOMAIN LastCall.results
    /\ \E i \in DOMAIN LastCall.results.images_results :
          LET img == LastCall.results.images_results[i]
          IN  /\ "original" \notin DOMAIN img
              /\ "link" \in DOMAIN img
              /\ img.link \in Range(LastCall.exclude_urls)
    /\ LastReturned.images # <<>>

\* C18: _select_best_images returns at most max_images hits, and at most 2
\* hits of the same source label.
C18_SelectionCaps ==
    observed.op = "_select_best_images" =>
       LET selected == LastReturned.selected
       IN  /\ Len(selected) <= LastCall.max_images
           /\ \A i \in DOMAIN selected :
                 Cardinality({j \in DOMAIN selected :
                                 SourceOf(selected[j]) = SourceOf(selected[i])}) <= 2

\* C18 witness: of three hits of one source label that all score above the
\* threshold, with room for three, two were selected
C18_Witness ==
    /\ observed.op = "_select_best_images"
    /\ Len(LastCall.images) = 3
    /\ LastCall.max_images = 3
    /\ \A i \in 1 .. 3 : /\ SourceOf(LastCall.images[i]) = SourceOf(LastCall.images[1])
                         /\ LastReturned.scored_images[i][1] > 10
    /\ Len(LastReturned.selected) = 2

\* the calls of the selector with hit A and hit B alone, in either order
ScenarioCall ==
    /\ observed.op = "_select_best_images"
    /\ LastCall.part_number = PN_CT100
    /\ LastCall.manufacturer = Schneider
    /\ Len(LastCall.images) = 2
    /\ {LastCall.images[1].title, LastCall.images[2].title} = {TitleA, TitleB}

\* the scores the selector gave to the hits of a title
ScoresOf(title) ==
    {LastReturned.scored_images[i][1] :
        i \in {j \in DOMAIN LastReturned.scored_images :
                  LastReturned.scored_images[j][2].title = title}}

TitlesOf(hits) == [i \in DOMAIN hits |-> hits[i].title]

\* C19 (as claimed): with part number "CT-100" and manufacturer "Schneider",
\* hit A scores at least 78 and is admitted, hit B scores at or below the
\* admission threshold and is absent from the selection.
C19_BannerExcluded ==
    (ScenarioCall /\ LastCall.max_images >= 1) =>
       /\ \A a \in ScoresOf(TitleA) : a >= 78
       /\ TitleA \in Range(TitlesOf(LastReturned.selected))
       /\ \A b \in ScoresOf(TitleB) : b <= 10
       /\ TitleB \notin Range(TitlesOf(LastReturned.selected))

\* C19 (amended): with part number "CT-100" and manufacturer "Schneider",
\* hit A scores at least 78 and is admitted first; hit B, whose title holds
\* the normalized part number, scores above the admission threshold and below
\* A, and is admitted after A when max_images is 2 or more.
C19_BannerAfterContactor ==
    (ScenarioCall /\ LastCall.max_images >= 1) =>
       /\ \A a \in ScoresOf(TitleA) : a >= 78
       /\ LastReturned.selected[1].title = TitleA
       /\ \A b \in ScoresOf(TitleB) : b > 10 /\ \A a \in ScoresOf(TitleA) : b < a
       /\ IF LastCall.max_images >= 2
          THEN TitlesOf(LastReturned.selected) = <<TitleA, TitleB>>
          ELSE TitlesOf(LastReturned.selected) = <<TitleA>>

\* C19 witness: the provider answered B before A, B being a 50 x 50 image, and
\* the selector with room for both returned A, then B
C19_Witness ==
    /\ ScenarioCall
    /\ LastCall.max_images >= 2
    /\ LastCall.images[1].title = TitleB
    /\ DictGet(LastCall.images[1], "original_width", 0) = 50
    /\ TitlesOf(LastReturned.selected) = <<TitleA, TitleB>>

\* C20 (as claimed): the source-trust bonus of a hit is 20 exactly when its
\* source label holds one of the preferred substrings, 10 exactly when it
\* holds none of those but one of the marketplace substrings, and 0 otherwise.
C20_SourceTrustBonus ==
    observed.op = "_score_image_relevance" =>
       LET source == SourceOf(LastCall.image_data)
           preferred == ContainsAny(industrial_sources, source)
           marketplace == ContainsAny(trusted_sources, source)
       IN  LastReturned.source_bonus = IF preferred THEN 20
                                       ELSE IF marketplace THEN 10
                                       ELSE 0

\* C21: the score _score_image_relevance returns is never below 0, whatever
\* noise-keyword and dimension penalties apply.
C21_ScoreFloor ==
    observed.op = "_score_image_relevance" => LastReturned.score >= 0

\* C21 witness: the penalties of a hit outweigh what it gained (its raw sum is
\* negative) and the score returned is 0
C21_Witness ==
    /\ observed.op = "_score_image_relevance"
    /\ RawScore(LastCall.image_data, LastCall.part_number, LastCall.manufacturer) < 0
    /\ CountIn(avoid_keywords, StrLower(LastCall.image_data.title)) > 0
    /\ DictGet(LastCall.image_data, "original_width", 0) = 50
    /\ LastReturned.score = 0

\* str.replace("-", "").replace(" ", "") of lines 114-115
Stripped(s) == SelectSeq(s, LAMBDA c : c \notin {"-", " "})

\* C22: what the part number adds to the raw score of a hit is 0, 30 or 50: it
\* is 50 whenever the lower-cased part number without hyphens and spaces is in
\* the title without hyphens and spaces, also when the lower-cased part number
\* as written is in the title, and 30 only when the first test fails and the
\* second holds.
C22_PartMatchExclusive ==
    observed.op = "_score_image_relevance" =>
       LET title == StrLower(LastCall.image_data.title)
           part_lower == StrLower(LastCall.part_number)
           normalized == IsSub(Stripped(part_lower), Stripped(title))
           raw == IsSub(part_lower, title)
       IN  /\ LastReturned.part_match \in {0, 30, 50}
           /\ normalized => LastReturned.part_match = 50
           /\ LastReturned.part_match = 30 => (~normalized /\ raw)

\* C22 witness: the title holds the part number as written, hyphen included,
\* so both tests pass, and 50 was added
C22_Witness ==
    /\ observed.op = "_score_image_relevance"
    /\ IsSub(StrLower(LastCall.part_number), StrLower(LastCall.image_data.title))
    /\ IsSub(Stripped(StrLower(LastCall.part_number)),
             Stripped(StrLower(LastCall.image_data.title)))
    /\ LastReturned.part_match = 50

\* C23 (as claimed): a fetch whose 200 response body is smaller than 1024
\* bytes returns the failure "File too small or empty" and leaves no file at
\* its path.
C23_SmallBodyRejected ==
    [][\A id \in DOMAIN bg : \A k \in 1 .. batch_size :
          (/\ Returns(id, k)
           /\ bg[id].tasks[k].pc = "verify"
           /\ bg[id].tasks[k].body.len < 1024) =>
             LET result == bg'[id].tasks[k].result[1]
             IN  /\ ~result.success
                 /\ result.error_message = Some("File too small or empty")
                 /\ result.filename \notin DOMAIN files']_vars

\* an exception leaves the code of download_images_background in this step:
\* its handler marks the job failed, or raises itself and ends the task
Escapes(id) ==
    /\ bg[id].pc # "crashed"
    /\ \/ bg'[id].pc = "crashed"
       \/ /\ id \in DOMAIN download_tasks /\ id \in DOMAIN download_tasks'
          /\ download_tasks[id].status # "failed"
          /\ download_tasks'[id].status = "failed"

\* C24 (as claimed): when an exception escapes the background run of a
\* download job outside the handling of its fetches, the job ends with status
\* failed, downloaded_images = 0, no archive reference and no results, and no
\* other job is touched.
C24_EscapedExceptionFailsJob ==
    [][\A id \in DOMAIN bg :
          Escapes(id) =>
             /\ id \in DOMAIN download_tasks'
             /\ download_tasks'[id].status = "failed"
             /\ download_tasks'[id].downloaded_images = 0
             /\ DictGet(download_tasks'[id], "zip_file", None) = None
             /\ download_tasks'[id].results = <<>>
             /\ \A other \in DOMAIN download_tasks \ {id} :
                   /\ other \in DOMAIN download_tasks'
                   /\ download_tasks'[other] = download_tasks[other]
             /\ \A other \in DOMAIN bg \ {id} : bg'[other] = bg[other]]_vars

\* C24 restricted to the jobs the tracker still holds
C24_FailedJobInTracker ==
    [][\A id \in DOMAIN bg :
          (Escapes(id) /\ id \in DOMAIN download_tasks) =>
             /\ id \in DOMAIN download_tasks'
             /\ download_tasks'[id].status = "failed"
             /\ download_tasks'[id].downloaded_images = 0
             /\ DictGet(download_tasks'[id], "zip_file", None) = None
             /\ download_tasks'[id].results = <<>>
             /\ \A other \in DOMAIN download_tasks \ {id} :
                   /\ other \in DOMAIN download_tasks'
                   /\ download_tasks'[other] = download_tasks[other]
             /\ \A other \in DOMAIN bg \ {id} : bg'[other] = bg[other]]_vars

\* the provider's answer to a query is an error or a failure of the call
Failing(answer) == "error" \in DOMAIN answer \/ "exception" \in DOMAIN answer

\* C25: a search of part numbers p1..pn returns and stores n PartSearchResults,
\* the i-th for pi; a part whose query the provider answers with an error or
\* an exception gets search_success = FALSE, no images and an error message,
\* the other parts are searched all the same (n queries, each other result a
\* success), and total_images_found is the sum of the image counts of the
\* successful results.
C25_SearchResultsPerPart ==
    [][(calls'.search = calls.search + 1 /\ observed'.op = "search_part_images") =>
          LET body == observed'.body[1]
              n == Len(body.asked)
          IN  /\ Len(body.results) = n
              /\ download_tasks'[body.search_id].search_results = body.results
              /\ calls'.queries = calls.queries + n
              /\ body.total_parts = n
              /\ \A i \in 1 .. n :
                    /\ body.results[i].part_number = body.asked[i]
                    /\ IF Failing(body.answers[i])
                       THEN /\ ~body.results[i].search_success
                            /\ body.results[i].images = <<>>
                            /\ body.results[i].error_message # None
                       ELSE /\ body.results[i].search_success
                            /\ body.results[i].error_message = None
              /\ body.total_images_found =
                    SeqSum([i \in 1 .. n |-> IF body.results[i].search_success
                                             THEN Len(body.results[i].images) ELSE 0])]_vars

\* C25 witness: of three part numbers the second got a provider error, the
\* first and the third got images
C25_Witness ==
    /\ observed.op = "search_part_images"
    /\ observed.code = 200
    /\ LET body == observed.body[1]
       IN  /\ Len(body.asked) = 3
           /\ ~body.results[2].search_success
           /\ body.results[1].images # <<>>
           /\ body.results[3].images # <<>>
           /\ body.total_images_found > 0
           /\ body.search_id \in DOMAIN download_tasks

\* C26 (as claimed): a search request with an empty part-number list or with an
\* images-per-part count outside the allowed range is answered with a
\* validation error, issues no provider query and adds no search job.
C26_InvalidSearchRejected ==
    [][(/\ observed'.op = "search_part_images"
        /\ observed' # observed
        /\ \/ observed'.code = 422
           \/ observed'.body[1].asked = <<>>) =>
             /\ observed'.code = 422
             /\ calls'.queries = calls.queries
             /\ download_tasks' = download_tasks]_vars

\* the images of a search job that a download of the part numbers `asked`
\* (all of them if none is asked) is to fetch: those of the successful
\* results that have an original URL
Wanted(search_results, asked) ==
    {<<i, j>> \in UNION {{<<i, j>> : j \in DOMAIN search_results[i].images} :
                            i \in DOMAIN search_results} :
        /\ search_results[i].search_success
        /\ search_results[i].images[j].original_url # EmptyUrl
        /\ asked = <<>> \/ search_results[i].part_number \in Range(asked)}

\* C27: a download submit on a search job answers in the same step, before any
\* fetch of the new job has run, with an id no job had before, status started,
\* downloaded_images = 0 and total_images = the number of images with an
\* original URL in the successful results of the search job (of the part
\* numbers asked, if any are); the tracker entry created holds the same values.
C27_SubmitAnswer ==
    [][(observed'.op = "download_images" /\ calls'.download = calls.download + 1) =>
          LET body == observed'.body[1]
              id == body.download_id
              total == Cardinality(Wanted(download_tasks[observed'.id].search_results,
                                          body.asked))
          IN  /\ observed'.code = 200
              /\ id \notin DOMAIN download_tasks /\ id \notin DOMAIN bg
              /\ body.status = "started"
              /\ body.downloaded_images = 0
              /\ body.total_images = total
              /\ download_tasks'[id].status = "started"
              /\ download_tasks'[id].downloaded_images = 0
              /\ download_tasks'[id].total_images = total
              /\ download_tasks'[id].results = <<>>
              /\ bg'[id].pc = "pending" /\ bg'[id].tasks = <<>>
              /\ files' = files /\ zips' = zips]_vars

\* C27 witness: the search job holds a failed result and an image without URL,
\* a subset of its part numbers was asked, and fewer images than the job's
\* successful results hold are to be fetched
C27_Witness ==
    /\ observed.op = "download_images"
    /\ observed.code = 200
    /\ observed.id \in DOMAIN download_tasks
    /\ LET body == observed.body[1]
           search_results == download_tasks[observed.id].search_results
       IN  /\ body.asked # <<>>
           /\ body.total_images = 1
           /\ Cardinality(Wanted(search_results, <<>>)) = 2
           /\ \E i \in DOMAIN search_results : ~search_results[i].search_success
           /\ \E i \in DOMAIN search_results :
                 \E j \in DOMAIN search_results[i].images :
                    search_results[i].images[j].original_url = EmptyUrl
           /\ body.download_id \in DOMAIN download_tasks
           /\ download_tasks[body.download_id].status = "started"

\* C28: the archive fetch answers with the archive of a download job only
\* while the job's status is completed and its archive exists; in every other
\* state of the job (started, processing, failed, completed without a
\* success) it answers not found.
C28_ArchiveOnlyWhenCompleted ==
    [][(/\ observed'.op = "download_zip_file"
        /\ observed' # observed
        /\ IsDownloadJob(observed'.id)) =>
          LET job == download_tasks[observed'.id]
          IN  IF /\ job.status = "completed"
                 /\ Successes(job.results) # <<>>
                 /\ ZipName(observed'.id) \in DOMAIN zips
              THEN /\ observed'.code = 200
                   /\ observed'.body = <<zips[ZipName(observed'.id)]>>
              ELSE observed'.code = 404]_vars

\* C28 witness: the archive of a completed job was fetched after the fetch
\* had answered not found for a job that failed
C28_Witness ==
    /\ observed.op = "download_zip_file"
    /\ observed.code = 200
    /\ observed.body # <<>>
    /\ download_tasks[observed.id].status = "completed"
    /\ \E id \in DownloadJobs : download_tasks[id].status = "failed"

\* the ways to put the positions 1 .. n in an order
Orders(n) == {p \in [1 .. n -> 1 .. n] : \A i, j \in 1 .. n : p[i] = p[j] => i = j}

\* the hits at the positions K of a list, in the order of the list
RECURSIVE Pick(_, _)
Pick(list, K) ==
    IF list = <<>> THEN <<>>
    ELSE Pick(SubSeq(list, 1, Len(list) - 1), K)
         \o (IF Len(list) \in K THEN <<list[Len(list)][2]>> ELSE <<>>)

\* C29: _select_best_images goes through the hits by non-increasing score,
\* hits of equal score in their input order, and returns, in that order, each
\* hit unless its score is 10 or less, or 2 hits of its source were admitted
\* before it, or max_images hits were admitted before it.
C29_GreedySelection ==
    observed.op = "_select_best_images" =>
       LET images == LastCall.images
           n == Len(images)
           sorted == LastReturned.scored_images
       IN  /\ \A k \in 1 .. n :
                 sorted[k][1] = score_image_relevance(sorted[k][2], LastCall.part_number,
                                                      LastCall.manufacturer)
           /\ \E p \in Orders(n) :
                /\ \A k \in 1 .. n : sorted[k][2] = images[p[k]]
                /\ \A k, l \in 1 .. n :
                      k < l => \/ sorted[k][1] > sorted[l][1]
                               \/ sorted[k][1] = sorted[l][1] /\ p[k] < p[l]
           /\ \E K \in SUBSET (1 .. n) :
                /\ LastReturned.selected = Pick(sorted, K)
                /\ \A k \in 1 .. n :
                      k \in K <=>
                         /\ sorted[k][1] > 10
                         /\ Cardinality({j \in K : j < k /\ SourceOf(sorted[j][2])
                                                             = SourceOf(sorted[k][2])}) < 2
                         /\ Cardinality({j \in K : j < k}) < LastCall.max_images

\* C29 witness: of three hits the first scores 10 and is left out, the other
\* two are different hits of one score and are returned in their input order
C29_Witness ==
    /\ observed.op = "_select_best_images"
    /\ Len(LastCall.images) = 3
    /\ LastCall.max_images = 3
    /\ LastReturned.scored_images[1][1] = LastReturned.scored_images[2][1]
    /\ LastReturned.scored_images[3][1] = 10
    /\ LastCall.images[2] # LastCall.images[3]
    /\ LastReturned.selected = <<LastCall.images[2], LastCall.images[3]>>

\* the entries of an archive that lie in a folder
InFolder(entries, folder) ==
    {i \in DOMAIN entries : IsPrefix(folder \o <<"/">>, entries[i].arcname)}

\* C30 (as claimed): in every archive the packaged files of an owner lie at
\* sanitizedOwner/sanitizedOwner_<ordinal>.ext with the ordinals 1 .. n, n
\* being the number of files packaged for that owner, and no two entries of
\* the archive have the same path.
C30_ArchiveLayout ==
    \A zip_filename \in DOMAIN zips :
       LET entries == zips[zip_filename]
           download_id == zip_filename[2]
           owners == IF download_id \in DOMAIN download_tasks
                     THEN {r.part_number : r \in Range(download_tasks[download_id].results)}
                     ELSE {}
       IN  /\ \A i, j \in DOMAIN entries :
                 i # j => entries[i].arcname # entries[j].arcname
           /\ download_id \in DOMAIN download_tasks =>
                 \A i \in DOMAIN entries :
                    \E owner \in owners :
                       LET folder == CleanPart(owner)
                           n == Cardinality(InFolder(entries, folder))
                       IN  \E k \in 1 .. n, ext \in ImageExtensions :
                              entries[i].arcname =
                                 folder \o <<"/">> \o folder \o <<"_">> \o Str(k) \o <<ext>>

(***************************************************************************)
(* C31: a stored search job is read-only.  Every step leaves the tracker   *)
(* entry of every search job as it was (its results list and its other     *)
(* fields), except the cleanup of that job's id, which removes that entry  *)
(* and no other.                                                           *)
(***************************************************************************)
C31_SearchJobReadOnly ==
    [][\A id \in DOMAIN download_tasks :
          IsSearchJob(id) =>
             \/ /\ id \in DOMAIN download_tasks'
                /\ download_tasks'[id] = download_tasks[id]
             \/ /\ calls'.cleanup = calls.cleanup + 1
                /\ download_tasks' = DictDel(download_tasks, id)]_vars

\* a search job that was re-processed and polled while a download job made
\* from the tracker's search jobs has run to its end
C31_Witness ==
    \E s, r, d \in DOMAIN download_tasks :
       /\ IsSearchJob(s) /\ "reprocessed_from" \notin DOMAIN download_tasks[s]
       /\ IsSearchJob(r) /\ "reprocessed_from" \in DOMAIN download_tasks[r]
       /\ download_tasks[r].reprocessed_from = s
       /\ IsDownloadJob(d) /\ download_tasks[d].status = "completed"
       /\ download_tasks[d].downloaded_images > 0
       /\ observed.op = "get_download_status" /\ observed.id = s

(***************************************************************************)
(* C32: the provider call is a suspension point.  A request that queries   *)
(* the provider waits for the response in a state of its own, in which     *)
(* polls, fetches and other requests can take steps: the step that sends   *)
(* queries to the provider is never the step that stores the job made of   *)
(* the provider's answers.  (GoogleSearch.get_dict() is a blocking call    *)
(* made on the event loop, lines 268-269 and 359-360, and neither handler  *)
(* reaches an await that suspends: from the first query to the store the   *)
(* request is one step.)                                                   *)
(***************************************************************************)
C32_ProviderCallSuspends ==
    [][calls'.queries > calls.queries =>
          /\ download_tasks' = download_tasks
          /\ observed' = observed]_vars

(***************************************************************************)
(* C33: the result list of download_images_batch is in submission order.   *)
(* For every download job and every index i of the results collected so    *)
(* far, and of the results stored in the tracker when the job completes,   *)
(* results[i] carries the part number, the URL and the filename of the     *)
(* i-th work item submitted, whatever order the fetches return in.         *)
(***************************************************************************)
InSubmissionOrder(results, items) ==
    /\ Len(results) <= Len(items)
    /\ \A i \in DOMAIN results :
          /\ results[i].part_number = items[i].part_number
          /\ results[i].image_url = items[i].url
          /\ results[i].filename = items[i].filename

C33_ResultsInSubmissionOrder ==
    \A id \in DOMAIN bg :
       /\ InSubmissionOrder(bg[id].results, bg[id].items)
       /\ (IsDownloadJob(id) /\ download_tasks[id].status = "completed") =>
             /\ InSubmissionOrder(download_tasks[id].results, bg[id].items)
             /\ Len(download_tasks[id].results) = Len(bg[id].items)

\* a completed job of more than one chunk, with work items of several part
\* numbers and with failures among the successes, while a later fetch of its
\* last chunk had returned before an earlier one
C33_Witness ==
    \E id \in DOMAIN bg :
       /\ IsDownloadJob(id) /\ download_tasks[id].status = "completed"
       /\ Len(download_tasks[id].results) > batch_size
       /\ Cardinality({r.part_number : r \in Range(download_tasks[id].results)}) > 1
       /\ \E i, j \in DOMAIN download_tasks[id].results :
             /\ i < j
             /\ ~download_tasks[id].results[i].success
             /\ download_tasks[id].results[j].success

(***************************************************************************)
(* C34: jobs do not touch each other's files.  The cleanup of another job  *)
(* and the fetches of another job never delete or overwrite a file of a    *)
(* download job: when a job whose work items all have different file names *)
(* (so that its own fetches cannot disturb each other) completes, then at  *)
(* that step, in which its archive is built, the file of each of its       *)
(* successful results is on storage and holds the bytes a fetch of this    *)
(* job wrote.                                                              *)
(***************************************************************************)
OwnNamesDistinct(items) ==
    \A i, j \in DOMAIN items : i # j => items[i].filename # items[j].filename

C34_JobKeepsItsFiles ==
    [][\A id \in DOMAIN bg :
          LET completes == /\ id \in DOMAIN download_tasks
                           /\ id \in DOMAIN download_tasks'
                           /\ download_tasks[id].status # "completed"
                           /\ download_tasks'[id].status = "completed"
          IN  (OwnNamesDistinct(bg[id].items) /\ completes) =>
                 \A i \in DOMAIN download_tasks'[id].results :
                    LET result == download_tasks'[id].results[i]
                    IN  result.success =>
                           /\ result.filename \in DOMAIN files
                           /\ files[result.filename].writer[1] = id]_vars

(***************************************************************************)
(* C35: search jobs and download jobs are kept apart by kind.  A download  *)
(* submit or a re-process that names the id of a download job is answered  *)
(* 404 like an unknown id, and a status poll or an archive fetch that      *)
(* names the id of a search job is answered 404 and never with a           *)
(* DownloadResponse.  (A job keeps its kind and its id for as long as it   *)
(* is in the tracker, and an answered request that removes a job is the    *)
(* last answer: the kind of the id named by the last answer is the kind    *)
(* it had when the request was served.)                                    *)
(***************************************************************************)
C35_KindsKeptApart ==
    /\ (observed.op \in {"download_images", "reprocess_part_images"}
           /\ IsDownloadJob(observed.id)) => observed.code = 404
    /\ (observed.op \in {"get_download_status", "download_zip_file"}
           /\ IsSearchJob(observed.id)) => observed.code = 404

====
